---- MODULE Spec2Model ----
(***************************************************************************)
(* Base64 transcoding core of use-base64: encodeBase64FromBytes (with its  *)
(* batch loop, tail handling, padding strip and line wrap), wrapAt,        *)
(* decodeBase64ToBytes and decodeBase64.                                   *)
(*                                                                         *)
(* Representation.  A JavaScript string is a sequence of one-character     *)
(* strings, a Uint8Array is a sequence of integers 0..255 and a decoded    *)
(* text is a sequence of code points.  JavaScript indexes from 0, TLA+     *)
(* from 1: s[k] of the source is s[k + 1] here.  An optional value is a    *)
(* sequence of length at most one: <<>> is absent (undefined / false),     *)
(* <<v>> is the value v.                                                   *)
(***************************************************************************)
EXTENDS Integers, Sequences, FiniteSets, TLC

None == <<>>
Some(v) == <<v>>

Min(a, b) == IF a <= b THEN a ELSE b

(***************************************************************************)
(* 32-bit integer operators of JavaScript on the non-negative values the   *)
(* code applies them to: every operand and every result is below 2^24, so  *)
(* no shift reaches the sign bit and none wraps.                           *)
(***************************************************************************)
Pow2F[n \in Nat] == IF n = 0 THEN 1 ELSE 2 * Pow2F[n - 1]

Pow2(n) == Pow2F[n]

Shl(x, n) == x * Pow2(n)

Shr(x, n) == x \div Pow2(n)

\* x & y, from the lowest bit up.
AndF[x \in Nat, y \in Nat] ==
  IF x = 0 \/ y = 0 THEN 0
  ELSE 2 * AndF[x \div 2, y \div 2] + (IF x % 2 = 1 /\ y % 2 = 1 THEN 1 ELSE 0)

BitAnd(x, y) == AndF[x, y]

\* x | y, from the lowest bit up.
OrF[x \in Nat, y \in Nat] ==
  IF x = 0 THEN y
  ELSE IF y = 0 THEN x
  ELSE 2 * OrF[x \div 2, y \div 2] + (IF x % 2 = 1 \/ y % 2 = 1 THEN 1 ELSE 0)

BitOr(x, y) == OrF[x, y]

(***************************************************************************)
(* encode.ts                                                               *)
(***************************************************************************)
Alnum ==
  << "A","B","C","D","E","F","G","H","I","J","K","L","M",
     "N","O","P","Q","R","S","T","U","V","W","X","Y","Z",
     "a","b","c","d","e","f","g","h","i","j","k","l","m",
     "n","o","p","q","r","s","t","u","v","w","x","y","z",
     "0","1","2","3","4","5","6","7","8","9" >>

B64_STD == Alnum \o << "+", "/" >>

\* Fault: the last two symbols of the url-safe alphabet exchanged.
B64_URL_SWAPPED == Alnum \o << "_", "-" >>

B64_URL == Alnum \o << "-", "_" >>

\* Fault: the variant option ignored.
TableIgnoresVariant(options) == B64_STD

\* const table = (options?.variant === "url") ? B64_URL : B64_STD
Table(options) == IF options.variant = Some("url") THEN B64_URL ELSE B64_STD

\* One 3-byte group of encodeChunk: the four symbols of bytes[i..i+2]
\* (i is the 0-based index of the source).
\* Fault: the second and third symbols of a group exchanged.
EncodeGroupSwapped(bytes, i, table) ==
  LET triple == BitOr(BitOr(Shl(bytes[i + 1], 16), Shl(bytes[i + 2], 8)), bytes[i + 3])
  IN  << table[BitAnd(Shr(triple, 18), 63) + 1],
         table[BitAnd(Shr(triple, 6), 63) + 1],
         table[BitAnd(Shr(triple, 12), 63) + 1],
         table[BitAnd(triple, 63) + 1] >>

EncodeGroup(bytes, i, table) ==
  LET triple == BitOr(BitOr(Shl(bytes[i + 1], 16), Shl(bytes[i + 2], 8)), bytes[i + 3])
  IN  << table[BitAnd(Shr(triple, 18), 63) + 1],
         table[BitAnd(Shr(triple, 12), 63) + 1],
         table[BitAnd(Shr(triple, 6), 63) + 1],
         table[BitAnd(triple, 63) + 1] >>

\* for (let i = start; i < end; i += 3) out += the four symbols of the group
RECURSIVE encodeChunk(_, _, _, _)
encodeChunk(bytes, start, end, table) ==
  IF start < end
  THEN EncodeGroup(bytes, start, table) \o encodeChunk(bytes, start + 3, end, table)
  ELSE << >>

\* The program's batch size (const chunkSize = 0x8000).
CHUNK_SIZE == 32768

\* The batch sizes the model runs the loop with: the program's own, and
\* small ones of each residue modulo 3 (0x8000 is 2 modulo 3, as 8 is), so
\* that inputs of a few bytes span several batches.
ChunkSizes == {3, 4, 8, CHUNK_SIZE}

\* Fault: the batch size not rounded down to whole groups.
BatchEndUnaligned(i, len, cs) == Min(i + cs, len - (len % 3))

\* Fault: the batch end computed from 0 instead of from i.
BatchEndFromZero(i, len, cs) == Min(cs - (cs % 3), len - (len % 3))

\* const end = Math.min(i + chunkSize - (chunkSize % 3), len - (len % 3))
BatchEnd(i, len, cs) == Min(i + cs - (cs % 3), len - (len % 3))

\* Fault: a single '=' after a one-byte tail.
EncodeTailOnePad(bytes, i, table) ==
  LET rem == Len(bytes) - i
      a == bytes[i + 1]
      b == IF rem = 2 THEN bytes[i + 2] ELSE 0
      triple == BitOr(Shl(a, 16), Shl(b, 8))
      two == << table[BitAnd(Shr(triple, 18), 63) + 1],
                table[BitAnd(Shr(triple, 12), 63) + 1] >>
  IN  IF rem > 0
      THEN IF rem = 2
           THEN two \o << table[BitAnd(Shr(triple, 6), 63) + 1], "=" >>
           ELSE two \o << "=" >>
      ELSE << >>

\* Lines 25-39: the remaining 1 or 2 bytes, with padding.
EncodeTail(bytes, i, table) ==
  LET rem == Len(bytes) - i
      a == bytes[i + 1]
      b == IF rem = 2 THEN bytes[i + 2] ELSE 0
      triple == BitOr(Shl(a, 16), Shl(b, 8))
      two == << table[BitAnd(Shr(triple, 18), 63) + 1],
                table[BitAnd(Shr(triple, 12), 63) + 1] >>
  IN  IF rem > 0
      THEN IF rem = 2
           THEN two \o << table[BitAnd(Shr(triple, 6), 63) + 1], "=" >>
           ELSE two \o << "=", "=" >>
      ELSE << >>

\* Fault: /=$/ for /=+$/, a single trailing '=' removed.
StripOneEq(s) ==
  IF Len(s) > 0 /\ s[Len(s)] = "=" THEN SubSeq(s, 1, Len(s) - 1) ELSE s

\* s.replace(/=+$/, ""): s without its trailing run of '='.
RECURSIVE StripTrailingEq(_)
StripTrailingEq(s) ==
  IF Len(s) > 0 /\ s[Len(s)] = "="
  THEN StripTrailingEq(SubSeq(s, 1, Len(s) - 1))
  ELSE s

\* if (options?.padding === "strip") output = output.replace(/=+$/u, "")
ApplyPadding(output, options) ==
  IF options.padding = Some("strip") THEN StripTrailingEq(output) ELSE output

(***************************************************************************)
(* wrap.ts                                                                 *)
(***************************************************************************)
\* input.slice(from, to) for 0 <= from; empty when to <= from.
Slice(input, from, to) == SubSeq(input, from + 1, Min(to, Len(input)))

\* Fault: input.slice(i, width) for input.slice(i, i + width).
RECURSIVE WrapLoopSliceToWidth(_, _, _)
WrapLoopSliceToWidth(input, width, i) ==
  IF i < Len(input)
  THEN Slice(input, i, width)
       \o (IF i + width < Len(input) THEN << "\n" >> ELSE << >>)
       \o WrapLoopSliceToWidth(input, width, i + width)
  ELSE << >>

\* Fault: i + width <= input.length, a break after a full last segment.
RECURSIVE WrapLoopBreakAtEnd(_, _, _)
WrapLoopBreakAtEnd(input, width, i) ==
  IF i < Len(input)
  THEN Slice(input, i, i + width)
       \o (IF i + width <= Len(input) THEN << "\n" >> ELSE << >>)
       \o WrapLoopBreakAtEnd(input, width, i + width)
  ELSE << >>

\* for (let i = 0; i < input.length; i += width) { ... }
RECURSIVE WrapLoop(_, _, _)
WrapLoop(input, width, i) ==
  IF i < Len(input)
  THEN Slice(input, i, i + width)
       \o (IF i + width < Len(input) THEN << "\n" >> ELSE << >>)
       \o WrapLoop(input, width, i + width)
  ELSE << >>

\* width is optional: None is an absent (undefined) width.
wrapAt(input, width) ==
  IF width = None \/ width[1] = 0 \/ width[1] <= 0
  THEN input
  ELSE WrapLoop(input, width[1], 0)

\* if (options?.wrap && typeof options.wrap === "number") output = wrapAt(output, options.wrap)
\* options.wrap is None for false or absent, Some(n) for the number n.
ApplyWrap(output, options) ==
  IF options.wrap # None /\ options.wrap[1] # 0
  THEN wrapAt(output, options.wrap)
  ELSE output

\* while (i + 3 <= len) { end = ...; output += encodeChunk(bytes, i, end, table); i = end }
\* run to completion from (i, output): the loop's final [i, output].
RECURSIVE BatchLoop(_, _, _, _, _)
BatchLoop(bytes, i, output, table, cs) ==
  IF i + 3 <= Len(bytes)
  THEN LET end == BatchEnd(i, Len(bytes), cs)
       IN  BatchLoop(bytes, end, output \o encodeChunk(bytes, i, end, table), table, cs)
  ELSE [i |-> i, output |-> output]

\* encodeBase64FromBytes(bytes, options) with batch size cs, as one value.
encodeBase64FromBytes(bytes, options, cs) ==
  LET table == Table(options)
      loop == BatchLoop(bytes, 0, << >>, table, cs)
      full == loop.output \o EncodeTail(bytes, loop.i, table)
  IN  ApplyWrap(ApplyPadding(full, options), options)

(***************************************************************************)
(* decode.ts                                                               *)
(***************************************************************************)
B64_STD_ALPH == Alnum \o << "+", "/" >>

\* Fault: the url-safe alphabet with the lower-case letters first.
B64_URL_ALPH_LOWER_FIRST ==
  SubSeq(B64_URL, 27, 52) \o SubSeq(B64_URL, 1, 26) \o SubSeq(B64_URL, 53, 64)

B64_URL_ALPH == Alnum \o << "-", "_" >>

\* createLookupTable(alphabet)[ch]: Some(index) when ch is in the alphabet,
\* None (undefined) when it is not.
Lookup(alphabet, ch) ==
  IF \E k \in 1..Len(alphabet) : alphabet[k] = ch
  THEN Some((CHOOSE k \in 1..Len(alphabet) : alphabet[k] = ch) - 1)
  ELSE None

\* bytes[k] ?? 0 (k 0-based)
ByteOr0(bytes, k) == IF k < Len(bytes) THEN bytes[k + 1] ELSE 0

\* The while loop of encodeBytesToBase64Raw, from index i.
RECURSIVE RawLoop(_, _, _)
RawLoop(bytes, alphabet, i) ==
  IF i < Len(bytes)
  THEN LET a == ByteOr0(bytes, i)
           b == ByteOr0(bytes, i + 1)
           c == ByteOr0(bytes, i + 2)
           triplet == BitOr(BitOr(Shl(a, 16), Shl(b, 8)), c)
           s0 == BitAnd(Shr(triplet, 18), 63)
           s1 == BitAnd(Shr(triplet, 12), 63)
           s2 == BitAnd(Shr(triplet, 6), 63)
           s3 == BitAnd(triplet, 63)
       IN  << alphabet[s0 + 1], alphabet[s1 + 1], alphabet[s2 + 1], alphabet[s3 + 1] >>
           \o RawLoop(bytes, alphabet, i + 3)
  ELSE << >>

encodeBytesToBase64Raw(bytes, alphabet) ==
  LET out == RawLoop(bytes, alphabet, 0)
      mod == Len(bytes) % 3
  IN  IF mod = 1 THEN SubSeq(out, 1, Len(out) - 2) \o << "=", "=" >>
      ELSE IF mod = 2 THEN SubSeq(out, 1, Len(out) - 1) \o << "=" >>
      ELSE out

\* The characters /\s/ matches, among those the model's texts are made of.
Whitespace == { " ", "\t", "\n", "\r", "\f" }

\* Fault: input.trim(), whitespace removed at the two ends only.
RECURSIVE TrimWhitespace(_)
TrimWhitespace(s) ==
  IF s = << >> THEN << >>
  ELSE IF Head(s) \in Whitespace THEN TrimWhitespace(Tail(s))
  ELSE IF s[Len(s)] \in Whitespace THEN TrimWhitespace(SubSeq(s, 1, Len(s) - 1))
  ELSE s

\* input.replace(/\s+/g, "")
RECURSIVE StripWhitespace(_)
StripWhitespace(s) ==
  IF s = << >> THEN << >>
  ELSE IF Head(s) \in Whitespace THEN StripWhitespace(Tail(s))
  ELSE << Head(s) >> \o StripWhitespace(Tail(s))

Contains(s, chars) == \E k \in 1..Len(s) : s[k] \in chars

\* "=".repeat(n)
RECURSIVE Repeat(_, _)
Repeat(ch, n) == IF n <= 0 THEN << >> ELSE << ch >> \o Repeat(ch, n - 1)

EndsWith(s, suffix) ==
  /\ Len(s) >= Len(suffix)
  /\ SubSeq(s, Len(s) - Len(suffix) + 1, Len(s)) = suffix

\* padded.indexOf("="), -1 when there is none
IndexOfEq(s) ==
  IF \E k \in 1..Len(s) : s[k] = "="
  THEN (CHOOSE k \in 1..Len(s) : s[k] = "=" /\ \A j \in 1..(k - 1) : s[j] # "=") - 1
  ELSE -1

\* padded[k] (0-based) as a property key: past the end it is undefined, and
\* lookup[undefined] is lookup["undefined"], which no table holds.
CharAt(s, k) == IF k + 1 \in 1..Len(s) THEN s[k + 1] ELSE "undefined"

\* Fault: the three writes made without if (out < outputLen).
DecodeGroupUnguarded(padded, lookupAlph, i, out, output) ==
  LET a == Lookup(lookupAlph, CharAt(padded, i))
      b == Lookup(lookupAlph, CharAt(padded, i + 1))
      c == IF CharAt(padded, i + 2) = "=" THEN Some(0)
           ELSE Lookup(lookupAlph, CharAt(padded, i + 2))
      d == IF CharAt(padded, i + 3) = "=" THEN Some(0)
           ELSE Lookup(lookupAlph, CharAt(padded, i + 3))
  IN  IF a = None \/ b = None \/ c = None \/ d = None
      THEN [ok |-> FALSE, out |-> out, output |-> output]
      ELSE LET triple == BitOr(BitOr(BitOr(Shl(a[1], 18), Shl(b[1], 12)), Shl(c[1], 6)), d[1])
           IN  [ok |-> TRUE,
                out |-> out + 3,
                output |-> [k \in 1..Len(output) |->
                              IF k = out + 1 THEN BitAnd(Shr(triple, 16), 255)
                              ELSE IF k = out + 2 THEN BitAnd(Shr(triple, 8), 255)
                              ELSE IF k = out + 3 THEN BitAnd(triple, 255)
                              ELSE output[k]]]

\* Fault: '=' read as 0 in the last group only.
DecodeGroupPadLastOnly(padded, lookupAlph, i, out, output) ==
  LET last == i + 4 >= Len(padded)
      a == Lookup(lookupAlph, CharAt(padded, i))
      b == Lookup(lookupAlph, CharAt(padded, i + 1))
      c == IF last /\ CharAt(padded, i + 2) = "=" THEN Some(0)
           ELSE Lookup(lookupAlph, CharAt(padded, i + 2))
      d == IF last /\ CharAt(padded, i + 3) = "=" THEN Some(0)
           ELSE Lookup(lookupAlph, CharAt(padded, i + 3))
  IN  IF a = None \/ b = None \/ c = None \/ d = None
      THEN [ok |-> FALSE, out |-> out, output |-> output]
      ELSE LET triple == BitOr(BitOr(BitOr(Shl(a[1], 18), Shl(b[1], 12)), Shl(c[1], 6)), d[1])
               outputLen == Len(output)
               b0 == BitAnd(Shr(triple, 16), 255)
               b1 == BitAnd(Shr(triple, 8), 255)
               b2 == BitAnd(triple, 255)
               n == Min(3, outputLen - out)
           IN  [ok |-> TRUE,
                out |-> out + n,
                output |-> [k \in 1..outputLen |->
                              IF k = out + 1 /\ n >= 1 THEN b0
                              ELSE IF k = out + 2 /\ n >= 2 THEN b1
                              ELSE IF k = out + 3 /\ n >= 3 THEN b2
                              ELSE output[k]]]

\* One iteration of the decode loop on the group at i (0-based), writing into
\* output (a buffer of outputLen bytes) from the write index out.
\* Gives [ok, out, output], or [ok |-> FALSE] on an undefined lookup.
DecodeGroup(padded, lookupAlph, i, out, output) ==
  LET a == Lookup(lookupAlph, CharAt(padded, i))
      b == Lookup(lookupAlph, CharAt(padded, i + 1))
      c == IF CharAt(padded, i + 2) = "=" THEN Some(0)
           ELSE Lookup(lookupAlph, CharAt(padded, i + 2))
      d == IF CharAt(padded, i + 3) = "=" THEN Some(0)
           ELSE Lookup(lookupAlph, CharAt(padded, i + 3))
  IN  IF a = None \/ b = None \/ c = None \/ d = None
      THEN [ok |-> FALSE, out |-> out, output |-> output]
      ELSE LET triple == BitOr(BitOr(BitOr(Shl(a[1], 18), Shl(b[1], 12)), Shl(c[1], 6)), d[1])
               outputLen == Len(output)
               b0 == BitAnd(Shr(triple, 16), 255)
               b1 == BitAnd(Shr(triple, 8), 255)
               b2 == BitAnd(triple, 255)
               n == Min(3, outputLen - out)
           IN  [ok |-> TRUE,
                out |-> out + n,
                output |-> [k \in 1..outputLen |->
                              IF k = out + 1 /\ n >= 1 THEN b0
                              ELSE IF k = out + 2 /\ n >= 2 THEN b1
                              ELSE IF k = out + 3 /\ n >= 3 THEN b2
                              ELSE output[k]]]

\* for (let i = 0; i < len; i += 4) { ... }, run to completion.
RECURSIVE DecodeLoop(_, _, _, _, _)
DecodeLoop(padded, lookupAlph, i, out, output) ==
  IF i < Len(padded)
  THEN LET g == DecodeGroup(padded, lookupAlph, i, out, output)
       IN  IF g.ok
           THEN DecodeLoop(padded, lookupAlph, i + 4, g.out, g.output)
           ELSE [ok |-> FALSE, position |-> i, out |-> out, output |-> output]
  ELSE [ok |-> TRUE, position |-> -1, out |-> out, output |-> output]

\* Fault: /^=+$/ for /^(=|==)$/.
ValidPaddingAnyRun(tail) == tail # << >> /\ \A k \in 1..Len(tail) : tail[k] = "="

\* /^(=|==)$/.test(tail)
ValidPaddingTail(tail) == tail = << "=" >> \/ tail = << "=", "=" >>

\* Fault: the output length without the padding correction.
OutputLenUnpadded(padded) == (Len(padded) \div 4) * 3

\* (len / 4) * 3 - (padded.endsWith("==") ? 2 : padded.endsWith("=") ? 1 : 0)
OutputLen(padded) ==
  (Len(padded) \div 4) * 3
    - (IF EndsWith(padded, << "=", "=" >>) THEN 2
       ELSE IF EndsWith(padded, << "=" >>) THEN 1 ELSE 0)

Done(bytes) == [ok |-> TRUE, error |-> "", position |-> -1, bytes |-> bytes]

Throw(msg, pos) == [ok |-> FALSE, error |-> msg, position |-> pos, bytes |-> << >>]

\* const hasUrlChars = /[-_]/.test(cleaned)
HasUrlChars(cleaned) == Contains(cleaned, { "-", "_" })

\* Fault: /[+]/ for /[+/]/.
HasPlus(cleaned) == Contains(cleaned, { "+" })

\* const hasStdChars = /[+/]/.test(cleaned)
HasStdChars(cleaned) == Contains(cleaned, { "+", "/" })

\* const alph = isUrl ? B64_URL_ALPH : B64_STD_ALPH (and lookup, its table)
Alph(cleaned) == IF HasUrlChars(cleaned) THEN B64_URL_ALPH ELSE B64_STD_ALPH

\* Fault: the length check left out.
LengthNeverInvalid(cleaned) == FALSE

\* if (mod === 1) throw, in the loose branch and in the strict branch
LengthInvalid(cleaned) == Len(cleaned) % 4 = 1

\* padded += "=".repeat(4 - mod), for mod 2 and 3 in both branches
Pad(cleaned) ==
  LET mod == Len(cleaned) % 4
  IN  IF mod = 2 \/ mod = 3 THEN cleaned \o Repeat("=", 4 - mod) ELSE cleaned

\* Fault: verifyCanonical never set.
VerifyNever(cleaned, loose) == FALSE

\* Fault: verifyCanonical set in strict mode whatever the length.
VerifyAlways(cleaned, loose) == ~loose

\* verifyCanonical after the branches
VerifyCanonical(cleaned, loose) ==
  ~loose /\ (Len(cleaned) % 4 = 2 \/ Len(cleaned) % 4 = 3)

\* eqIdx !== -1 && !/^(=|==)$/.test(padded.slice(eqIdx))
PaddingMisplaced(padded) ==
  LET eqIdx == IndexOfEq(padded)
  IN  eqIdx # -1 /\ ~ValidPaddingTail(SubSeq(padded, eqIdx + 1, Len(padded)))

\* Fault: in loose mode "=".repeat(4 - mod) appended without the test of mod.
FramePadsWholeGroup(cleaned, loose) ==
  LET padded == IF loose THEN cleaned \o Repeat("=", 4 - (Len(cleaned) % 4))
                         ELSE Pad(cleaned)
      outputLen == OutputLen(padded)
  IN  [cleaned |-> cleaned,
       alph |-> Alph(cleaned),
       padded |-> padded,
       verifyCanonical |-> VerifyCanonical(cleaned, loose),
       outputLen |-> outputLen,
       i |-> 0,
       out |-> 0,
       output |-> [k \in 1..outputLen |-> 0]]

\* The locals of decodeBase64ToBytes when the loop is entered.
Frame(cleaned, loose) ==
  LET padded == Pad(cleaned)
      outputLen == OutputLen(padded)
  IN  [cleaned |-> cleaned,
       alph |-> Alph(cleaned),
       padded |-> padded,
       verifyCanonical |-> VerifyCanonical(cleaned, loose),
       outputLen |-> outputLen,
       i |-> 0,
       out |-> 0,
       output |-> [k \in 1..outputLen |-> 0]]

NoFrame == [cleaned |-> << >>, alph |-> << >>, padded |-> << >>,
            verifyCanonical |-> FALSE, outputLen |-> 0, i |-> 0, out |-> 0,
            output |-> << >>]

\* Fault: the length looked at before the alphabets.
DecodeEnterLengthFirst(input, loose) ==
  LET cleaned == StripWhitespace(input)
      over(r) == [over |-> TRUE, result |-> r, frame |-> NoFrame]
  IN  IF input = << >>
        THEN over(Done(<< >>))
      ELSE IF LengthInvalid(cleaned)
        THEN over(Throw("Invalid Base64 string length", -1))
      ELSE IF HasUrlChars(cleaned) /\ HasStdChars(cleaned)
        THEN over(Throw("Mixed Base64 alphabets (standard and URL-safe)", -1))
      ELSE IF ~loose /\ Len(cleaned) % 4 = 0 /\ PaddingMisplaced(cleaned)
        THEN over(Throw("Invalid Base64 padding", -1))
      ELSE [over |-> FALSE, result |-> Done(<< >>), frame |-> Frame(cleaned, loose)]

\* decodeBase64ToBytes from its entry to the loop: either it is over (an
\* early return or a throw) with a result, or the loop starts on a frame.
DecodeEnter(input, loose) ==
  LET cleaned == StripWhitespace(input)
      over(r) == [over |-> TRUE, result |-> r, frame |-> NoFrame]
  IN  IF input = << >>
        THEN over(Done(<< >>))
      ELSE IF HasUrlChars(cleaned) /\ HasStdChars(cleaned)
        THEN over(Throw("Mixed Base64 alphabets (standard and URL-safe)", -1))
      ELSE IF LengthInvalid(cleaned)
        THEN over(Throw("Invalid Base64 string length", -1))
      ELSE IF ~loose /\ Len(cleaned) % 4 = 0 /\ PaddingMisplaced(cleaned)
        THEN over(Throw("Invalid Base64 padding", -1))
      ELSE [over |-> FALSE, result |-> Done(<< >>), frame |-> Frame(cleaned, loose)]

\* Fault: the canonical check made in loose mode as well.
DecodeExitAnyMode(frame, loose) ==
  LET reenc == StripTrailingEq(encodeBytesToBase64Raw(frame.output, frame.alph))
  IN  IF Len(frame.cleaned) % 4 \in { 2, 3 } /\ reenc # frame.cleaned
        THEN Throw("Invalid Base64 input (non-canonical without padding)", -1)
      ELSE Done(frame.output)

\* decodeBase64ToBytes after the loop: the canonical check and the return.
DecodeExit(frame, loose) ==
  LET reenc == StripTrailingEq(encodeBytesToBase64Raw(frame.output, frame.alph))
  IN  IF ~loose /\ frame.verifyCanonical /\ reenc # frame.cleaned
        THEN Throw("Invalid Base64 input (non-canonical without padding)", -1)
      ELSE Done(frame.output)

\* From the loop entered on frame to the end of decodeBase64ToBytes.
DecodeFrom(frame, loose) ==
  LET run == DecodeLoop(frame.padded, frame.alph, 0, 0, frame.output)
  IN  IF ~run.ok
        THEN Throw("Invalid Base64 character at position", run.position)
      ELSE DecodeExit([frame EXCEPT !.out = run.out, !.output = run.output], loose)

\* decodeBase64ToBytes(input, { loose }): Done(bytes) on return, Throw(message,
\* position) on a thrown Error (position is the ${i} of the message, else -1).
decodeBase64ToBytes(input, loose) ==
  LET e == DecodeEnter(input, loose)
  IN  IF e.over THEN e.result ELSE DecodeFrom(e.frame, loose)

(***************************************************************************)
(* env.ts                                                                  *)
(***************************************************************************)
\* U+FFFD, which a UTF-8 decoder puts in place of a malformed sequence.
REPLACEMENT == 65533

\* U+FEFF, the byte order mark.
BOM == 65279

\* The UTF-8 decoder (WHATWG Encoding, as TextDecoder and Buffer implement
\* it) from byte k (1-based): cp is the code point under construction,
\* pending the number of continuation bytes still expected, lower..upper the
\* range the next continuation byte must be in.
RECURSIVE Utf8Loop(_, _, _, _, _, _)
Utf8Loop(bytes, k, cp, pending, lower, upper) ==
  IF k > Len(bytes)
  THEN IF pending # 0 THEN << REPLACEMENT >> ELSE << >>
  ELSE
  LET b == bytes[k]
  IN  IF pending = 0
      THEN IF b <= 127 THEN << b >> \o Utf8Loop(bytes, k + 1, 0, 0, 128, 191)
           ELSE IF b >= 194 /\ b <= 223
             THEN Utf8Loop(bytes, k + 1, BitAnd(b, 31), 1, 128, 191)
           ELSE IF b >= 224 /\ b <= 239
             THEN Utf8Loop(bytes, k + 1, BitAnd(b, 15), 2,
                           IF b = 224 THEN 160 ELSE 128,
                           IF b = 237 THEN 159 ELSE 191)
           ELSE IF b >= 240 /\ b <= 244
             THEN Utf8Loop(bytes, k + 1, BitAnd(b, 7), 3,
                           IF b = 240 THEN 144 ELSE 128,
                           IF b = 244 THEN 143 ELSE 191)
           ELSE << REPLACEMENT >> \o Utf8Loop(bytes, k + 1, 0, 0, 128, 191)
      ELSE IF b < lower \/ b > upper
           THEN << REPLACEMENT >> \o Utf8Loop(bytes, k, 0, 0, 128, 191)
           ELSE LET next == BitOr(Shl(cp, 6), BitAnd(b, 63))
                IN  IF pending = 1
                    THEN << next >> \o Utf8Loop(bytes, k + 1, 0, 0, 128, 191)
                    ELSE Utf8Loop(bytes, k + 1, next, pending - 1, 128, 191)

\* new TextDecoder().decode(bytes): a leading byte order mark is dropped.
TextDecoderDecode(bytes) ==
  LET text == Utf8Loop(bytes, 1, 0, 0, 128, 191)
  IN  IF text # << >> /\ Head(text) = BOM THEN Tail(text) ELSE text

\* Buffer.from(bytes).toString("utf-8"): a byte order mark is kept.
BufferToString(bytes) == Utf8Loop(bytes, 1, 0, 0, 128, 191)

NO_DECODER == "No UTF-8 decoder available in this environment"

\* Fault: TextDecoder never tried.
utf8DecodeBufferOnly(bytes, env) ==
  IF env.hasBuffer THEN [ok |-> TRUE, error |-> "", text |-> BufferToString(bytes)]
  ELSE [ok |-> FALSE, error |-> NO_DECODER, text |-> << >>]

\* utf8Decode(bytes) in the environment env = [hasTextDecoder, hasBuffer]:
\* [ok |-> TRUE, text] or [ok |-> FALSE, error].
utf8Decode(bytes, env) ==
  IF env.hasTextDecoder THEN [ok |-> TRUE, error |-> "", text |-> TextDecoderDecode(bytes)]
  ELSE IF env.hasBuffer THEN [ok |-> TRUE, error |-> "", text |-> BufferToString(bytes)]
  ELSE [ok |-> FALSE, error |-> NO_DECODER, text |-> << >>]

\* String.prototype.normalize(form) on texts made of ASCII, U+20AC, U+FFFD,
\* U+FEFF, U+1F60D, U+1F30D, a lone surrogate and the pair e + U+0301 /
\* U+00E9: the canonical composition (NFC, NFKC) or decomposition (NFD, NFKD)
\* of that pair; every other code point of this repertoire is its own normal
\* form.
RECURSIVE Normalize(_, _)
Normalize(text, form) ==
  IF text = << >> THEN << >>
  ELSE IF form \in {"NFC", "NFKC"} /\ Len(text) >= 2 /\ text[1] = 101 /\ text[2] = 769
    THEN << 233 >> \o Normalize(SubSeq(text, 3, Len(text)), form)
  ELSE IF form \in {"NFD", "NFKD"} /\ text[1] = 233
    THEN << 101, 769 >> \o Normalize(Tail(text), form)
  ELSE << Head(text) >> \o Normalize(Tail(text), form)

(***************************************************************************)
(* decode.ts: decodeBase64                                                 *)
(***************************************************************************)
\* Fault: the bytes decoded as UTF-8 before options.output is looked at.
decodeBase64DecodesFirst(input, options, env) ==
  LET r == decodeBase64ToBytes(input, options.loose)
      t == utf8Decode(r.bytes, env)
  IN  IF ~r.ok
        THEN [ok |-> FALSE, error |-> r.error, position |-> r.position,
              kind |-> "none", bytes |-> << >>, text |-> << >>]
      ELSE IF ~t.ok
        THEN [ok |-> FALSE, error |-> t.error, position |-> -1,
              kind |-> "none", bytes |-> << >>, text |-> << >>]
      ELSE IF options.output = Some("bytes")
        THEN [ok |-> TRUE, error |-> "", position |-> -1,
              kind |-> "bytes", bytes |-> r.bytes, text |-> << >>]
      ELSE [ok |-> TRUE, error |-> "", position |-> -1,
            kind |-> "string", bytes |-> << >>,
            text |-> IF options.normalize # None
                     THEN Normalize(t.text, options.normalize[1])
                     ELSE t.text]

\* decodeBase64(input, options) in environment env.  The result carries the
\* kind of value returned ("bytes" or "string"), or the thrown Error.
decodeBase64(input, options, env) ==
  LET r == decodeBase64ToBytes(input, options.loose)
      t == utf8Decode(r.bytes, env)
  IN  IF ~r.ok
        THEN [ok |-> FALSE, error |-> r.error, position |-> r.position,
              kind |-> "none", bytes |-> << >>, text |-> << >>]
      ELSE IF options.output = Some("bytes")
        THEN [ok |-> TRUE, error |-> "", position |-> -1,
              kind |-> "bytes", bytes |-> r.bytes, text |-> << >>]
      ELSE IF ~t.ok
        THEN [ok |-> FALSE, error |-> t.error, position |-> -1,
              kind |-> "none", bytes |-> << >>, text |-> << >>]
      ELSE [ok |-> TRUE, error |-> "", position |-> -1,
            kind |-> "string", bytes |-> << >>,
            text |-> IF options.normalize # None
                     THEN Normalize(t.text, options.normalize[1])
                     ELSE t.text]

(***************************************************************************)
(* The inputs the model runs the program on.                               *)
(***************************************************************************)
MaxLen == 3

MaxRampLen == 10

MaxWrap == 4
MaxTextLen == 4
MaxTailLen == 2
MaxStringLen == 2
MaxConversions == 2

(***************************************************************************)
(* decode-hook.ts: useBase64Decode, useBase64DecodeSafe                    *)
(***************************************************************************)
\* A decoded value is [kind, bytes, text]: a string or a Uint8Array.

\* input ?? ""
SafeInput(inp) == IF inp = None THEN << >> ELSE inp[1]

\* options?.output === "bytes" ? new Uint8Array(0) : ""
EmptyValue(opts) ==
  [kind |-> IF opts.output = Some("bytes") THEN "bytes" ELSE "string",
   bytes |-> << >>, text |-> << >>]

\* The value decodeBase64 returned.
Returned(r) == [kind |-> r.kind, bytes |-> r.bytes, text |-> r.text]

\* The dependency array of both hooks.
Deps(inp, opts) == << SafeInput(inp), opts.output, opts.normalize >>

\* try { return decodeBase64(safeInput, options) } catch { return the empty
\* value }, r being what decodeBase64 returned or threw.
TryDecode(r, opts) == IF r.ok THEN Returned(r) ELSE EmptyValue(opts)

\* The callback useBase64Decode gives to useMemo: what it returns, and
\* whether it throws.
useBase64DecodeCallback(inp, opts, env) ==
  [threw |-> FALSE, value |-> TryDecode(decodeBase64(SafeInput(inp), opts, env), opts)]

\* Fault: the catch branch returns "" whatever the output option.
TryDecodeSafeEmptyString(r, opts) ==
  IF r.ok
  THEN [data |-> Returned(r), error |-> None, isValid |-> TRUE]
  ELSE [data |-> [kind |-> "string", bytes |-> << >>, text |-> << >>],
        error |-> Some(r.error), isValid |-> FALSE]

\* The try and catch of useBase64DecodeSafe, r being what decodeBase64
\* returned or threw.  Everything decodeBase64 throws is an Error, so the
\* message kept is error.message.
TryDecodeSafe(r, opts) ==
  IF r.ok
  THEN [data |-> Returned(r), error |-> None, isValid |-> TRUE]
  ELSE [data |-> EmptyValue(opts), error |-> Some(r.error), isValid |-> FALSE]

\* The callback useBase64DecodeSafe gives to useMemo.
useBase64DecodeSafeCallback(inp, opts, env) ==
  IF SafeInput(inp) = << >>
  THEN [threw |-> FALSE,
        value |-> [data |-> EmptyValue(opts), error |-> None, isValid |-> TRUE]]
  ELSE [threw |-> FALSE,
        value |-> TryDecodeSafe(decodeBase64(SafeInput(inp), opts, env), opts)]

HookCallback(hook, inp, opts, env) ==
  IF hook = "useBase64Decode"
  THEN useBase64DecodeCallback(inp, opts, env)
  ELSE useBase64DecodeSafeCallback(inp, opts, env)

\* React's useMemo(callback, deps) with the cell memo of the component: the
\* callback runs on the first render and when a dependency differs from the
\* one of the render before (Object.is, value equality on strings and
\* undefined); otherwise the value kept is returned.
UseMemoHit(cell, deps) == cell # None /\ cell[1].deps = deps

(***************************************************************************)
(* image.ts: imageFileToBase64, urlToBase64                                *)
(* image-hook.ts: useImageToBase64                                         *)
(***************************************************************************)
\* A File is [name, type], its type the pair of the two parts of the MIME
\* type ("image/png" is << "image", "png" >>, "" is << "", "" >>).  The
\* string a conversion produces is kept as << source, producer >>.

\* file.type.startsWith("image/")
StartsWithImage(type) == type[1] = "image"

\* JavaScript truthiness of an optional number and of an optional string.
TruthyNumber(x) == x # None /\ x[1] # 0
TruthyString(x) == x # None /\ x[1] # ""

\* The negation of the test of line 88: some option asks for the canvas.
WantsCanvas(opts) ==
  \/ TruthyNumber(opts.maxWidth)
  \/ TruthyNumber(opts.maxHeight)
  \/ TruthyString(opts.type)
  \/ TruthyNumber(opts.quality)

NOT_AN_IMAGE == "File is not an image"
LOAD_FAILED == "Failed to load image"
URL_LOAD_FAILED == "Failed to load image from URL"
NO_CONTEXT == "Could not get canvas 2D context"
READ_FAILED == "reader.error.message"

\* One call of convertFile or convertUrl: where its promise stands (reading:
\* FileReader at work; loading: image at work; settled: settled, the
\* continuation of the await not yet run; done: the continuation has run),
\* how many object URLs it created and revoked, and, once settled, its
\* outcome and its rank among the settled calls; type and opts are the type
\* of the file and the options it was called with.
Conversion(kind, source, type, opts, stage, created) ==
  [kind |-> kind, source |-> source, type |-> type, opts |-> opts,
   stage |-> stage, created |-> created,
   revoked |-> 0, ok |-> FALSE, data |-> None, error |-> None, order |-> 0]

\* The synchronous part of imageFileToBase64(file, options): the executor of
\* its promise.
imageFileToBase64(file, opts) ==
  IF ~StartsWithImage(file.type)
  THEN [Conversion("file", file.name, file.type, opts, "settled", 0)
          EXCEPT !.error = Some(NOT_AN_IMAGE)]
  ELSE IF ~WantsCanvas(opts)
  THEN Conversion("file", file.name, file.type, opts, "reading", 0)
  ELSE Conversion("file", file.name, file.type, opts, "loading", 1)

\* The synchronous part of urlToBase64(url, options).
urlToBase64(url, opts) == Conversion("url", url, << "", "" >>, opts, "loading", 0)

\* resolve(result)
Resolved(c, producer) ==
  [c EXCEPT !.ok = TRUE, !.data = Some(<< c.source, producer >>)]

\* reject(new Error(message))
Rejected(c, message) == [c EXCEPT !.ok = FALSE, !.error = Some(message)]

\* Fault: the URL revoked after resolve only, not in a finally block.
OnLoadRevokesOnSuccess(c, threw) ==
  IF threw
  THEN Rejected(c, NO_CONTEXT)
  ELSE [Resolved(c, "canvas") EXCEPT !.revoked = IF c.kind = "file" THEN @ + 1 ELSE @]

\* img.onload of imageFileToBase64 and of urlToBase64: imageElementToBase64
\* returns or throws; the first then revokes its URL in either case.
OnLoad(c, threw) ==
  LET d == IF threw THEN Rejected(c, NO_CONTEXT) ELSE Resolved(c, "canvas")
  IN  [d EXCEPT !.revoked = IF c.kind = "file" THEN @ + 1 ELSE @]

\* img.onerror of imageFileToBase64 and of urlToBase64.
OnError(c) ==
  IF c.kind = "file"
  THEN [Rejected(c, LOAD_FAILED) EXCEPT !.revoked = @ + 1]
  ELSE Rejected(c, URL_LOAD_FAILED)

\* The state convertFile and convertUrl set first.
LoadingState == [data |-> None, loading |-> TRUE, error |-> None]

\* The state the continuation of the await sets for a settled conversion.
ResultState(c) ==
  IF c.ok THEN [data |-> c.data, loading |-> FALSE, error |-> None]
          ELSE [data |-> None, loading |-> FALSE, error |-> c.error]

\* Fault: the result of a call that is no longer the latest one is dropped.
SetStateIfLatest(state, cs, k) ==
  IF k = Len(cs) THEN ResultState(cs[k]) ELSE state

\* The state after the continuation of call k has run: setState replaces
\* the state, whichever call is the latest.
SetStateAfter(state, cs, k) == ResultState(cs[k])

\* The number of calls settled so far.
SettledCount(cs) == Cardinality({ k \in 1..Len(cs) : cs[k].order > 0 })

\* Call k settles as d and the continuation of its await runs, both within
\* the task of the event.
SettleAndContinue(cs, k, d) ==
  [cs EXCEPT ![k] = [d EXCEPT !.stage = "done", !.order = SettledCount(cs) + 1]]

\* A continuation is waiting in the microtask queue.
ContinuationQueued(cs) == \E k \in 1..Len(cs) : cs[k].stage = "settled"

(***************************************************************************)
(* env.ts: utf8Encode, encode.ts: encodeBase64                             *)
(***************************************************************************)
\* A string is the sequence of its code points; a surrogate code point
\* (U+D800..U+DFFF) in it is a lone surrogate of the UTF-16 string.

\* Fault: the two bytes of the UTF-16 code unit for the UTF-8 bytes.
Utf16Bytes(cp) == << (cp \div 256) % 256, cp % 256 >>

\* The UTF-8 bytes of a code point, as TextEncoder and Buffer.from(s, "utf-8")
\* give them: a lone surrogate is encoded as U+FFFD.
Utf8Bytes(cp) ==
  IF cp < 128 THEN << cp >>
  ELSE IF cp < 2048 THEN << 192 + (cp \div 64), 128 + (cp % 64) >>
  ELSE IF cp >= 55296 /\ cp <= 57343 THEN << 239, 191, 189 >>
  ELSE IF cp < 65536
    THEN << 224 + (cp \div 4096), 128 + ((cp \div 64) % 64), 128 + (cp % 64) >>
  ELSE << 240 + (cp \div 262144), 128 + ((cp \div 4096) % 64),
          128 + ((cp \div 64) % 64), 128 + (cp % 64) >>

\* new TextEncoder().encode(s), and Buffer.from(s, "utf-8")
RECURSIVE TextEncoderEncode(_)
TextEncoderEncode(str) ==
  IF str = << >> THEN << >> ELSE Utf8Bytes(Head(str)) \o TextEncoderEncode(Tail(str))

NO_ENCODER == "No UTF-8 encoder available in this environment"

\* utf8Encode(input, normalize) in the environment env = [hasTextEncoder,
\* hasBuffer, ...]: [ok, error, bytes].
utf8Encode(str, normalize, env) ==
  LET t == IF normalize # None THEN Normalize(str, normalize[1]) ELSE str
  IN  IF env.hasTextEncoder \/ env.hasBuffer
      THEN [ok |-> TRUE, error |-> "", bytes |-> TextEncoderEncode(t)]
      ELSE [ok |-> FALSE, error |-> NO_ENCODER, bytes |-> << >>]

\* encodeBase64(input, options) in the environment env: the text returned, or
\* the Error thrown.
encodeBase64(str, opts, env) ==
  LET b == utf8Encode(str, opts.normalize, env)
  IN  IF ~b.ok
      THEN [ok |-> FALSE, error |-> b.error, position |-> -1,
            kind |-> "none", bytes |-> << >>, text |-> << >>]
      ELSE [ok |-> TRUE, error |-> "", position |-> -1,
            kind |-> "string", bytes |-> b.bytes,
            text |-> encodeBase64FromBytes(b.bytes, opts, CHUNK_SIZE)]

\* "Hello/World+", the string of the README's variant example.
HELLO_WORLD == << 72, 101, 108, 108, 111, 47, 87, 111, 114, 108, 100, 43 >>

\* "Hello " and U+1F30D, the string of the README's Unicode example.
HELLO_GLOBE == << 72, 101, 108, 108, 111, 32, 127757 >>

\* 'A', '/', '+', 'e', U+00E9, U+0301 (which NFC composes with 'e'), U+20AC,
\* U+1F60D and the lone surrogate U+D83D.
StringChars == { 65, 47, 43, 101, 233, 769, 8364, 128525, 55357 }

\* 0x00, 0xFB (first symbol 62) and 0xFF (symbols 63).
ByteVals == {0, 251, 255}

RECURSIVE SeqsOfLen(_, _)
SeqsOfLen(S, n) ==
  IF n = 0 THEN { << >> }
  ELSE { << x >> \o t : x \in S, t \in SeqsOfLen(S, n - 1) }

Short == UNION { SeqsOfLen(ByteVals, n) : n \in 0..MaxLen }

Ramp(n, base, step) == [k \in 1..n |-> (base + (k - 1) * step) % 256]

\* "abcdefghij" and a ramp through high bytes, at every length to MaxRampLen.
Ramps == { Ramp(n, 97, 1) : n \in 0..MaxRampLen } \cup { Ramp(n, 3, 83) : n \in 0..MaxRampLen }

\* Every byte value at each place of a group, and as a 1- and a 2-byte tail.
FullRange ==
  UNION { { << b >>, << 255 - b, b >>, << (b + 85) % 256, 255 - b, b >> } : b \in 0..255 }

Variants == { None, Some("standard"), Some("url") }

Paddings == { None, Some("preserve"), Some("strip") }

Wraps == { None } \cup { Some(w) : w \in (-1)..MaxWrap }

EncodeOptions == [variant : Variants, padding : Paddings, wrap : Wraps]

UnwrappedOptions == [variant : Variants, padding : Paddings, wrap : { None }]

ExplicitOptions == [variant : { Some("standard"), Some("url") },
                    padding : { Some("preserve"), Some("strip") },
                    wrap : { None }]

Envs == [hasTextDecoder : BOOLEAN, hasBuffer : BOOLEAN]

AllCodecs == [hasTextDecoder |-> TRUE, hasBuffer |-> TRUE]

DecodeOptions == [output : { None, Some("string"), Some("bytes") },
                  normalize : { None },
                  loose : BOOLEAN]

\* The options of decodeBase64 called on its own, with a normalization form.
TextCallOptions == [output : { None, Some("string"), Some("bytes") },
                    normalize : { None, Some("NFC") },
                    loose : BOOLEAN]

NoOptions == [output |-> None, normalize |-> None, loose |-> FALSE]

\* The characters of the texts given to the decoders: two alphanumerics
\* (values 0 and 1), the symbols 62 and 63 of the standard alphabet, the
\* symbol 62 of the url-safe one, '=', a character of neither alphabet, and
\* a whitespace character.
TextChars == { "A", "B", "+", "/", "-", "=", "!", " " }

\* Nothing, a whole group ("ABC" encoded), a padded group, or the symbol 62
\* of the url-safe alphabet, ahead of the characters that vary.
Prefixes == { << >>, << "Q", "U", "J", "D" >>, << "A", "B", "=", "=" >>, << "-" >> }

\* Every text of up to MaxTextLen characters after each prefix: all lengths
\* modulo 4, one and two groups, '=' and whitespace at every place.
Texts ==
  { p \o t : p \in Prefixes,
             t \in UNION { SeqsOfLen(TextChars, n) : n \in 0..MaxTextLen } }

\* The same with up to MaxTailLen characters, for decodeBase64, and also
\* after "ZcyB": the bytes of 'e' and U+0301, which NFC composes.
TextInputs ==
  { p \o t : p \in Prefixes \cup { << "Z", "c", "y", "B" >> },
             t \in UNION { SeqsOfLen(TextChars, n) : n \in 0..MaxTailLen } }

\* What decodeBase64ToBytes returned or threw, as the result of a call.
BytesResult(r) ==
  [ok |-> r.ok, error |-> r.error, position |-> r.position,
   kind |-> IF r.ok THEN "bytes" ELSE "none", bytes |-> r.bytes, text |-> << >>]

NoResult == [ok |-> FALSE, error |-> "", position |-> -1,
             kind |-> "none", bytes |-> << >>, text |-> << >>]

\* An image file and a text file.
Files == { [name |-> "photo.png", type |-> << "image", "png" >>],
           [name |-> "notes.txt", type |-> << "text", "plain" >>] }

Urls == { "https://example.test/a.png" }

\* No option, maxWidth 50, and quality 0 (which is falsy).
ImageOptions ==
  { [maxWidth |-> None, maxHeight |-> None, type |-> None, quality |-> None],
    [maxWidth |-> Some(50), maxHeight |-> None, type |-> None, quality |-> None],
    [maxWidth |-> None, maxHeight |-> None, type |-> None, quality |-> Some(0)] }

\* convertUrl is called without options.
UrlOptions ==
  { [maxWidth |-> None, maxHeight |-> None, type |-> None, quality |-> None] }

\* The input prop of the decode hooks: undefined, "", "QUJD", "AB" (stray
\* bits: refused in strict mode only), "A+-B" (mixed alphabets: refused in
\* both modes) and "ZcyB" (which NFC composes).
HookInputs ==
  { None, Some(<< >>), Some(<< "Q", "U", "J", "D" >>), Some(<< "A", "B" >>),
    Some(<< "A", "+", "-", "B" >>), Some(<< "Z", "c", "y", "B" >>) }

\* The options prop of the decode hooks.
HookOptions == [output : { None, Some("bytes") },
                normalize : { None, Some("NFC") },
                loose : BOOLEAN]

\* The environments the hooks are rendered in: with both decoders, with none.
HookEnvs == { AllCodecs, [hasTextDecoder |-> FALSE, hasBuffer |-> FALSE] }

Hooks == { "useBase64Decode", "useBase64DecodeSafe" }

Strings ==
  UNION { SeqsOfLen(StringChars, n) : n \in 0..MaxStringLen }
    \cup { HELLO_WORLD, HELLO_GLOBE }

\* The options of encodeBase64, with a normalization form.
TextOptions == [variant : Variants, padding : Paddings, wrap : { None },
                normalize : { None, Some("NFC"), Some("NFD") }]

EncoderEnvs == [hasTextEncoder : BOOLEAN, hasTextDecoder : { TRUE }, hasBuffer : BOOLEAN]

\* Nobody has called setState yet.
NoSetter == [by |-> "none", conv |-> 0]

\* useState({ data: null, loading: false, error: null })
InitialState == [data |-> None, loading |-> FALSE, error |-> None]

(***************************************************************************)
(* State                                                                   *)
(***************************************************************************)
VARIABLES
  env,           \* hasTextDecoder / hasBuffer of env.ts, fixed at load
  bytes,         \* encodeBase64FromBytes: the argument bytes
  options,       \* encodeBase64FromBytes: the argument options
  chunkSize,     \* encodeBase64FromBytes: const chunkSize
  i,             \* encodeBase64FromBytes: let i
  output,        \* encodeBase64FromBytes: let output
  outPadded,     \* the value of output after the tail is appended (line 39)
  outStripped,   \* the value of output after the padding option (line 42)
  pc,            \* "idle", "loop", "encoded" (output returned), "decoded", "wrapped"
  call,          \* the decoder entry point called, "" before
  decodeOptions, \* its options
  result,        \* what it returned or threw
  width,         \* wrapAt called on its own: the argument width
  wrapped,       \* wrapAt called on its own: the text returned
  input,         \* a decoder called on its own: the argument input
  dec,           \* decodeBase64ToBytes called on its own: its locals
  memo,          \* a decode hook: the useMemo cell, [deps, value] once rendered
  convs,         \* useImageToBase64: the conversions started, in call order
  hookState,     \* useImageToBase64: the useState cell
  lastSet        \* useImageToBase64: who called setState last

vars == << env, bytes, options, chunkSize, i, output, outPadded, outStripped,
           pc, call, decodeOptions, result, width, wrapped, input, dec,
           memo, convs, hookState, lastSet >>

Init ==
  /\ \/ /\ bytes \in Short
        /\ options \in EncodeOptions
        /\ chunkSize = CHUNK_SIZE
        /\ env = AllCodecs
     \/ /\ bytes \in Ramps
        /\ options \in EncodeOptions
        /\ chunkSize \in ChunkSizes
        /\ env = AllCodecs
     \/ /\ bytes \in FullRange
        /\ options \in ExplicitOptions
        /\ chunkSize = CHUNK_SIZE
        /\ env = AllCodecs
     \/ /\ bytes \in Short
        /\ options \in UnwrappedOptions
        /\ chunkSize = CHUNK_SIZE
        /\ env \in Envs
  /\ i = 0
  /\ output = << >>
  /\ outPadded = << >>
  /\ outStripped = << >>
  /\ pc = "loop"
  /\ call = ""
  /\ decodeOptions = NoOptions
  /\ result = NoResult
  /\ width = None
  /\ wrapped = << >>
  /\ input = << >>
  /\ dec = NoFrame
  /\ memo = None
  /\ convs = << >>
  /\ hookState = InitialState
  /\ lastSet = NoSetter

\* One iteration of while (i + 3 <= len).
EncodeBatch ==
  /\ pc = "loop"
  /\ i + 3 <= Len(bytes)
  /\ LET end == BatchEnd(i, Len(bytes), chunkSize)
     IN  /\ output' = output \o encodeChunk(bytes, i, end, Table(options))
         /\ i' = end
  /\ UNCHANGED << env, bytes, options, chunkSize, outPadded, outStripped,
                  pc, call, decodeOptions, result, width, wrapped, input, dec,
                  memo, convs, hookState, lastSet >>

\* The loop is left: tail, padding option, wrap option, return output.
EncodeReturn ==
  /\ pc = "loop"
  /\ ~(i + 3 <= Len(bytes))
  /\ LET full == output \o EncodeTail(bytes, i, Table(options))
         stripped == ApplyPadding(full, options)
     IN  /\ outPadded' = full
         /\ outStripped' = stripped
         /\ output' = ApplyWrap(stripped, options)
  /\ pc' = "encoded"
  /\ UNCHANGED << env, bytes, options, chunkSize, i, call, decodeOptions, result,
                  width, wrapped, input, dec,
                  memo, convs, hookState, lastSet >>

\* decodeBase64ToBytes(output, { loose }) on the text the encoder returned.
DecodeToBytes ==
  /\ pc = "encoded"
  /\ \E loose \in BOOLEAN :
       LET r == decodeBase64ToBytes(output, loose)
       IN  /\ decodeOptions' = [NoOptions EXCEPT !.loose = loose]
           /\ result' = [ok |-> r.ok, error |-> r.error, position |-> r.position,
                         kind |-> IF r.ok THEN "bytes" ELSE "none",
                         bytes |-> r.bytes, text |-> << >>]
  /\ call' = "decodeBase64ToBytes"
  /\ pc' = "decoded"
  /\ UNCHANGED << env, bytes, options, chunkSize, i, output, outPadded, outStripped,
                  width, wrapped, input, dec,
                  memo, convs, hookState, lastSet >>

\* decodeBase64(output, opts) on the text the encoder returned.
DecodeText ==
  /\ pc = "encoded"
  /\ \E opts \in DecodeOptions :
       /\ decodeOptions' = opts
       /\ result' = decodeBase64(output, opts, env)
  /\ call' = "decodeBase64"
  /\ pc' = "decoded"
  /\ UNCHANGED << env, bytes, options, chunkSize, i, output, outPadded, outStripped,
                  width, wrapped, input, dec,
                  memo, convs, hookState, lastSet >>

\* wrapAt(text, w) called on its own, on a text the encoder returned
\* unwrapped, with any width: absent, negative, zero or positive.
WrapText ==
  /\ pc = "encoded"
  /\ options.wrap = None
  /\ \E w \in Wraps :
       /\ width' = w
       /\ wrapped' = wrapAt(output, w)
  /\ call' = "wrapAt"
  /\ pc' = "wrapped"
  /\ UNCHANGED << env, bytes, options, chunkSize, i, output, outPadded, outStripped,
                  decodeOptions, result, input, dec,
                  memo, convs, hookState, lastSet >>

Next == EncodeBatch \/ EncodeReturn \/ DecodeToBytes \/ DecodeText \/ WrapText

Spec == Init /\ [][Next]_vars

\* The encoder alone: from rest, a call of encodeBase64FromBytes with any
\* bytes, any options and any batch size enters the loop.
InitIdle ==
  /\ bytes = << >>
  /\ options = [variant |-> None, padding |-> None, wrap |-> None]
  /\ chunkSize = CHUNK_SIZE
  /\ env = AllCodecs
  /\ i = 0
  /\ output = << >>
  /\ outPadded = << >>
  /\ outStripped = << >>
  /\ pc = "idle"
  /\ call = ""
  /\ decodeOptions = NoOptions
  /\ result = NoResult
  /\ width = None
  /\ wrapped = << >>
  /\ input = << >>
  /\ dec = NoFrame
  /\ memo = None
  /\ convs = << >>
  /\ hookState = InitialState
  /\ lastSet = NoSetter

EncodeCall ==
  /\ pc = "idle"
  /\ bytes' \in Short \cup Ramps
  /\ options' \in EncodeOptions
  /\ chunkSize' \in ChunkSizes
  /\ i' = 0
  /\ output' = << >>
  /\ pc' = "loop"
  /\ UNCHANGED << env, outPadded, outStripped, call, decodeOptions, result,
                  width, wrapped, input, dec,
                  memo, convs, hookState, lastSet >>

NextEncode == EncodeCall \/ EncodeBatch \/ EncodeReturn

\* encodeBase64FromBytes is synchronous: once called, its loop and its return
\* are run without waiting on anything.
FairSpec ==
  InitIdle /\ [][NextEncode]_vars /\ WF_vars(EncodeBatch) /\ WF_vars(EncodeReturn)

\* The decoders called on their own, with any text: decodeBase64ToBytes step
\* by step, decodeBase64 in every environment.
InitDecode ==
  /\ \/ /\ call = "decodeBase64ToBytes"
        /\ input \in Texts
        /\ env = AllCodecs
     \/ /\ call = "decodeBase64"
        /\ input \in TextInputs
        /\ env \in Envs
  /\ bytes = << >>
  /\ options = [variant |-> None, padding |-> None, wrap |-> None]
  /\ chunkSize = CHUNK_SIZE
  /\ i = 0
  /\ output = << >>
  /\ outPadded = << >>
  /\ outStripped = << >>
  /\ pc = "call"
  /\ decodeOptions = NoOptions
  /\ result = NoResult
  /\ width = None
  /\ wrapped = << >>
  /\ dec = NoFrame
  /\ memo = None
  /\ convs = << >>
  /\ hookState = InitialState
  /\ lastSet = NoSetter

\* decodeBase64ToBytes(input, { loose }) up to its loop (lines 88-144).
DecodeBegin ==
  /\ pc = "call"
  /\ call = "decodeBase64ToBytes"
  /\ \E loose \in BOOLEAN :
       LET e == DecodeEnter(input, loose)
       IN  /\ decodeOptions' = [NoOptions EXCEPT !.loose = loose]
           /\ IF e.over
              THEN /\ result' = BytesResult(e.result)
                   /\ pc' = "decoded"
                   /\ dec' = dec
              ELSE /\ dec' = e.frame
                   /\ pc' = "decodeLoop"
                   /\ result' = result
  /\ UNCHANGED << env, bytes, options, chunkSize, i, output, outPadded, outStripped,
                  call, width, wrapped, input,
                  memo, convs, hookState, lastSet >>

\* One iteration of for (let i = 0; i < len; i += 4), or its throw.
DecodeIterate ==
  /\ pc = "decodeLoop"
  /\ dec.i < Len(dec.padded)
  /\ LET g == DecodeGroup(dec.padded, dec.alph, dec.i, dec.out, dec.output)
     IN  IF g.ok
         THEN /\ dec' = [dec EXCEPT !.i = dec.i + 4, !.out = g.out, !.output = g.output]
              /\ UNCHANGED << pc, result >>
         ELSE /\ result' = BytesResult(Throw("Invalid Base64 character at position", dec.i))
              /\ pc' = "decoded"
              /\ dec' = dec
  /\ UNCHANGED << env, bytes, options, chunkSize, i, output, outPadded, outStripped,
                  call, decodeOptions, width, wrapped, input,
                  memo, convs, hookState, lastSet >>

\* The loop is left: canonical check and return (lines 163-173).
DecodeFinish ==
  /\ pc = "decodeLoop"
  /\ ~(dec.i < Len(dec.padded))
  /\ result' = BytesResult(DecodeExit(dec, decodeOptions.loose))
  /\ pc' = "decoded"
  /\ UNCHANGED << env, bytes, options, chunkSize, i, output, outPadded, outStripped,
                  call, decodeOptions, width, wrapped, input, dec,
                  memo, convs, hookState, lastSet >>

\* decodeBase64(input, opts).
DecodeTextCall ==
  /\ pc = "call"
  /\ call = "decodeBase64"
  /\ \E opts \in TextCallOptions :
       /\ decodeOptions' = opts
       /\ result' = decodeBase64(input, opts, env)
  /\ pc' = "decoded"
  /\ UNCHANGED << env, bytes, options, chunkSize, i, output, outPadded, outStripped,
                  call, width, wrapped, input, dec,
                  memo, convs, hookState, lastSet >>

NextDecode == DecodeBegin \/ DecodeIterate \/ DecodeFinish \/ DecodeTextCall

DecodeSpec == InitDecode /\ [][NextDecode]_vars

\* encodeBase64 called on its own, with any string, in every environment.
InitText ==
  /\ input \in Strings
  /\ options \in TextOptions
  /\ env \in EncoderEnvs
  /\ call = "encodeBase64"
  /\ bytes = << >>
  /\ chunkSize = CHUNK_SIZE
  /\ i = 0
  /\ output = << >>
  /\ outPadded = << >>
  /\ outStripped = << >>
  /\ pc = "call"
  /\ decodeOptions = NoOptions
  /\ result = NoResult
  /\ width = None
  /\ wrapped = << >>
  /\ dec = NoFrame
  /\ memo = None
  /\ convs = << >>
  /\ hookState = InitialState
  /\ lastSet = NoSetter

\* encodeBase64(input, options).
EncodeTextCall ==
  /\ pc = "call"
  /\ call = "encodeBase64"
  /\ result' = encodeBase64(input, options, env)
  /\ pc' = "returned"
  /\ UNCHANGED << env, bytes, options, chunkSize, i, output, outPadded, outStripped,
                  call, decodeOptions, width, wrapped, input, dec,
                  memo, convs, hookState, lastSet >>

NextText == EncodeTextCall

TextSpec == InitText /\ [][NextText]_vars

\* A component that calls one of the decode hooks is mounted.
InitHook ==
  /\ call \in Hooks
  /\ env \in HookEnvs
  /\ input = None
  /\ decodeOptions = NoOptions
  /\ memo = None
  /\ pc = "mounted"
  /\ result = NoResult
  /\ bytes = << >>
  /\ options = UnwrappedOptions
  /\ chunkSize = CHUNK_SIZE
  /\ i = 0
  /\ output = << >>
  /\ outPadded = << >>
  /\ outStripped = << >>
  /\ width = None
  /\ wrapped = << >>
  /\ dec = NoFrame
  /\ convs = << >>
  /\ hookState = InitialState
  /\ lastSet = NoSetter

\* One render of the component, with any input and options as props.  result
\* is what the hook returned to the component; ran tells whether useMemo
\* called the callback in this render.
Render ==
  /\ call \in Hooks
  /\ pc \in { "mounted", "rendered" }
  /\ \E inp \in HookInputs, opts \in HookOptions :
       /\ input' = inp
       /\ decodeOptions' = opts
       /\ IF UseMemoHit(memo, Deps(inp, opts))
          THEN /\ memo' = memo
               /\ result' = [threw |-> FALSE, ran |-> FALSE, value |-> memo[1].value]
          ELSE \E r \in { HookCallback(call, inp, opts, env) } :
                 /\ memo' = Some([deps |-> Deps(inp, opts), value |-> r.value])
                 /\ result' = [threw |-> r.threw, ran |-> TRUE, value |-> r.value]
  /\ pc' = "rendered"
  /\ UNCHANGED << env, bytes, options, chunkSize, i, output, outPadded, outStripped,
                  call, width, wrapped, dec, convs, hookState, lastSet >>

NextHook == Render

HookSpec == InitHook /\ [][NextHook]_vars

\* A component that calls useImageToBase64 is mounted.
InitImage ==
  /\ call = "useImageToBase64"
  /\ hookState = InitialState
  /\ convs = << >>
  /\ lastSet = NoSetter
  /\ pc = "mounted"
  /\ env = AllCodecs
  /\ input = << >>
  /\ decodeOptions = NoOptions
  /\ memo = None
  /\ result = NoResult
  /\ bytes = << >>
  /\ options = UnwrappedOptions
  /\ chunkSize = CHUNK_SIZE
  /\ i = 0
  /\ output = << >>
  /\ outPadded = << >>
  /\ outStripped = << >>
  /\ width = None
  /\ wrapped = << >>
  /\ dec = NoFrame

ImageIdle ==
  UNCHANGED << env, bytes, options, chunkSize, i, output, outPadded, outStripped,
               pc, call, decodeOptions, result, width, wrapped, input, dec, memo >>

\* convertFile(file, options), up to its await.  lastSet keeps who called
\* setState last.
ConvertFile ==
  /\ call = "useImageToBase64"
  /\ Len(convs) < MaxConversions
  /\ \E file \in Files, opts \in ImageOptions :
       convs' = Append(convs, imageFileToBase64(file, opts))
  /\ hookState' = LoadingState
  /\ lastSet' = [by |-> "convert", conv |-> Len(convs) + 1]
  /\ ImageIdle

\* convertUrl(url, options), up to its await.
ConvertUrl ==
  /\ call = "useImageToBase64"
  /\ Len(convs) < MaxConversions
  /\ \E url \in Urls, opts \in UrlOptions :
       convs' = Append(convs, urlToBase64(url, opts))
  /\ hookState' = LoadingState
  /\ lastSet' = [by |-> "convert", conv |-> Len(convs) + 1]
  /\ ImageIdle

\* The continuation of the await of a call whose promise was rejected inside
\* the call: a microtask, run in the order the promises were rejected.
Continue ==
  /\ call = "useImageToBase64"
  /\ \E k \in 1..Len(convs) :
       /\ convs[k].stage = "settled"
       /\ \A j \in 1..(k - 1) : convs[j].stage # "settled"
       /\ convs' = SettleAndContinue(convs, k, convs[k])
       /\ hookState' = SetStateAfter(hookState, convs', k)
       /\ lastSet' = [by |-> "settle", conv |-> k]
  /\ ImageIdle

\* The task of an event of call k: the handler settles the promise as d and
\* the continuation of the await runs before the task ends.  No task starts
\* while a microtask is waiting.
EventTask(k, stage, d) ==
  /\ call = "useImageToBase64"
  /\ ~ContinuationQueued(convs)
  /\ k \in 1..Len(convs)
  /\ convs[k].stage = stage
  /\ convs' = SettleAndContinue(convs, k, d)
  /\ hookState' = SetStateAfter(hookState, convs', k)
  /\ lastSet' = [by |-> "settle", conv |-> k]
  /\ ImageIdle

\* reader.onload of fileToBase64.
ReaderLoad(k) ==
  /\ k \in 1..Len(convs)
  /\ EventTask(k, "reading", Resolved(convs[k], "reader"))

\* reader.onerror of fileToBase64.
ReaderError(k) ==
  /\ k \in 1..Len(convs)
  /\ EventTask(k, "reading", Rejected(convs[k], READ_FAILED))

\* img.onload: the canvas gives a 2D context, or does not.
ImageLoad(k) ==
  /\ k \in 1..Len(convs)
  /\ \E threw \in BOOLEAN : EventTask(k, "loading", OnLoad(convs[k], threw))

\* img.onerror.
ImageError(k) ==
  /\ k \in 1..Len(convs)
  /\ EventTask(k, "loading", OnError(convs[k]))

\* reset().
Reset ==
  /\ call = "useImageToBase64"
  /\ hookState' = InitialState
  /\ lastSet' = [by |-> "reset", conv |-> 0]
  /\ UNCHANGED convs
  /\ ImageIdle

ReaderLoads == \E k \in 1..MaxConversions : ReaderLoad(k)
ReaderErrors == \E k \in 1..MaxConversions : ReaderError(k)
ImageLoads == \E k \in 1..MaxConversions : ImageLoad(k)
ImageErrors == \E k \in 1..MaxConversions : ImageError(k)

NextImage ==
  \/ ConvertFile
  \/ ConvertUrl
  \/ Continue
  \/ ReaderLoads
  \/ ReaderErrors
  \/ ImageLoads
  \/ ImageErrors
  \/ Reset

ImageSpec == InitImage /\ [][NextImage]_vars

\* The browser fires load or error on every image whose src was set, and
\* runs every queued microtask.
FairImageSpec ==
  /\ InitImage
  /\ [][NextImage]_vars
  /\ WF_vars(Continue)
  /\ \A k \in 1..MaxConversions : WF_vars(ImageLoad(k) \/ ImageError(k))

(***************************************************************************)
(* Properties                                                              *)
(***************************************************************************)

\* decodeBase64ToBytes step by step ends as decodeBase64ToBytes as a whole.
StepsAgree ==
  (pc = "decoded" /\ call = "decodeBase64ToBytes")
    => result = BytesResult(decodeBase64ToBytes(input, decodeOptions.loose))

\* C1 (round trip): whatever the bytes, the variant, the padding option and
\* the wrap option, decodeBase64ToBytes in strict mode accepts the text that
\* encodeBase64FromBytes returned and gives back exactly the bytes encoded.
RoundTrip ==
  (call = "decodeBase64ToBytes" /\ ~decodeOptions.loose)
    => (result.ok /\ result.bytes = bytes)

\* A url-safe, unpadded, wrapped encoding of two groups and a tail that uses
\* symbol 62, decoded back in strict mode.
RoundTripWitness ==
  /\ call = "decodeBase64ToBytes"
  /\ ~decodeOptions.loose
  /\ options.variant = Some("url")
  /\ options.padding = Some("strip")
  /\ options.wrap = Some(3)
  /\ Len(bytes) = 7
  /\ Contains(output, {"-"})
  /\ Contains(output, {"\n"})
  /\ result.ok
  /\ result.bytes = bytes

\* RFC 4648, section 4: the symbol of a 6-bit value.
RfcSymbol(v) ==
  IF v < 26 THEN SubSeq(Alnum, 1, 26)[v + 1]
  ELSE IF v < 52 THEN SubSeq(Alnum, 27, 52)[v - 25]
  ELSE IF v < 62 THEN SubSeq(Alnum, 53, 62)[v - 51]
  ELSE IF v = 62 THEN "+" ELSE "/"

\* RFC 4648, section 4: the encoding of a byte sequence, by arithmetic on
\* the 24-bit value of each group.
RECURSIVE RfcEncode(_)
RfcEncode(b) ==
  IF Len(b) = 0 THEN << >>
  ELSE IF Len(b) = 1
    THEN LET n == b[1] * 65536
         IN  << RfcSymbol(n \div 262144), RfcSymbol((n \div 4096) % 64), "=", "=" >>
  ELSE IF Len(b) = 2
    THEN LET n == b[1] * 65536 + b[2] * 256
         IN  << RfcSymbol(n \div 262144), RfcSymbol((n \div 4096) % 64),
                RfcSymbol((n \div 64) % 64), "=" >>
  ELSE LET n == b[1] * 65536 + b[2] * 256 + b[3]
       IN  << RfcSymbol(n \div 262144), RfcSymbol((n \div 4096) % 64),
              RfcSymbol((n \div 64) % 64), RfcSymbol(n % 64) >>
           \o RfcEncode(SubSeq(b, 4, Len(b)))

IsDefault(o) ==
  /\ o.variant \in { None, Some("standard") }
  /\ o.padding \in { None, Some("preserve") }
  /\ o.wrap = None

\* C2 (RFC 4648 reference): with default options the text returned is the
\* RFC 4648 encoding of the bytes: four symbols per complete 3-byte group, two
\* symbols and "==" for a 1-byte tail, three symbols and "=" for a 2-byte
\* tail, nothing for an empty tail; so "a", "ab", "abc" give YQ==, YWI=, YWJj.
MatchesRfc4648 ==
  (pc = "encoded" /\ IsDefault(options))
    => /\ output = RfcEncode(bytes)
       /\ bytes = << 97 >> => output = << "Y", "Q", "=", "=" >>
       /\ bytes = << 97, 98 >> => output = << "Y", "W", "I", "=" >>
       /\ bytes = << 97, 98, 99 >> => output = << "Y", "W", "J", "j" >>

\* "abcde" encoded with no option given: one group and a 2-byte tail.
MatchesRfc4648Witness ==
  /\ pc = "encoded"
  /\ options = [variant |-> None, padding |-> None, wrap |-> None]
  /\ bytes = << 97, 98, 99, 100, 101 >>
  /\ output = << "Y", "W", "J", "j", "Z", "G", "U", "=" >>

Symbols == { B64_STD[k] : k \in 1..64 } \cup { B64_URL[k] : k \in 1..64 }

\* C3 (the encoder is total): every call of encodeBase64FromBytes leaves its
\* batch loop and returns; each iteration of the loop moves i forward, never
\* past the end of the bytes; what is returned is a text of alphabet symbols,
\* '=' and line breaks, and the empty text for the empty byte sequence.
EncodeTotal ==
  /\ [][(pc = "loop" /\ pc' = "loop") => (i < i' /\ i' <= Len(bytes))]_vars
  /\ [](pc # "loop" =>
          /\ \A k \in 1..Len(output) : output[k] \in Symbols \cup { "=", "\n" }
          /\ bytes = << >> => output = << >>)
  /\ (pc = "loop") ~> (pc = "encoded")

\* Ten bytes encoded in batches of one group: three iterations, then the tail.
EncodeTotalWitness ==
  /\ pc = "encoded"
  /\ chunkSize = 4
  /\ Len(bytes) = 10
  /\ i = 9
  /\ Len(outPadded) = 16

\* C4 (alphabet exclusivity): a text encoded with variant "url" holds neither
\* '+' nor '/', and one encoded with variant "standard" or with no variant
\* holds neither '-' nor '_', whatever the padding and wrap options.
AlphabetExclusive ==
  pc # "idle" =>
    /\ options.variant = Some("url") => ~Contains(output, { "+", "/" })
    /\ options.variant # Some("url") => ~Contains(output, { "-", "_" })

\* Both of the symbols that differ are produced, in each variant.
AlphabetExclusiveWitness ==
  /\ pc = "encoded"
  /\ options.variant = Some("url")
  /\ Contains(output, { "-" })
  /\ Contains(output, { "_" })
  /\ options.wrap = Some(2)
  /\ options.padding = Some("strip")

\* s with every '+' replaced by '-' and every '/' by '_'.
Translate(s) ==
  [k \in 1..Len(s) |-> IF s[k] = "+" THEN "-" ELSE IF s[k] = "/" THEN "_" ELSE s[k]]

\* C5 (url is standard, translated): the url-variant text is the
\* standard-variant text of the same bytes, padding and wrap with '+' replaced
\* by '-' and '/' by '_', and nothing else changed; with padding stripped (and
\* no wrap) it is the padded standard text so translated, less its trailing '='.
UrlIsStandardTranslated ==
  (pc = "encoded" /\ options.variant = Some("url")) =>
    /\ output = Translate(encodeBase64FromBytes(
                   bytes, [options EXCEPT !.variant = Some("standard")], chunkSize))
    /\ (options.padding = Some("strip") /\ options.wrap = None) =>
         output = StripTrailingEq(Translate(encodeBase64FromBytes(
                     bytes, [variant |-> None, padding |-> None, wrap |-> None],
                     chunkSize)))

\* A stripped url text in which both replacements took place and padding
\* was removed.
UrlIsStandardTranslatedWitness ==
  /\ pc = "encoded"
  /\ options = [variant |-> Some("url"), padding |-> Some("strip"), wrap |-> None]
  /\ Contains(output, { "-" })
  /\ Contains(output, { "_" })
  /\ Len(bytes) % 3 = 1
  /\ Len(bytes) > 3

\* C6 (padding strip): with padding "strip" the text before wrapping is the
\* padded text less its whole trailing run of '=', so it holds no '=' at
\* all; with padding "preserve" or none it is the padded text.
StripRemovesAllPadding ==
  pc = "encoded" =>
    IF options.padding = Some("strip")
    THEN /\ ~Contains(outStripped, { "=" })
         /\ Len(outStripped) <= Len(outPadded)
         /\ outStripped = SubSeq(outPadded, 1, Len(outStripped))
         /\ \A k \in (Len(outStripped) + 1)..Len(outPadded) : outPadded[k] = "="
    ELSE outStripped = outPadded

\* Two '=' were there to remove.
StripRemovesAllPaddingWitness ==
  /\ pc = "encoded"
  /\ options.padding = Some("strip")
  /\ Len(outPadded) = Len(outStripped) + 2
  /\ Len(outStripped) > 4

\* s without its line breaks.
RECURSIVE RemoveBreaks(_)
RemoveBreaks(s) ==
  IF s = << >> THEN << >>
  ELSE IF Head(s) = "\n" THEN RemoveBreaks(Tail(s))
  ELSE << Head(s) >> \o RemoveBreaks(Tail(s))

\* C7 (wrap invariant): for a width w > 0, the wrapped text with its line
\* breaks removed is the text that was wrapped: wrapping inserts line breaks
\* and neither drops, duplicates nor reorders a character.  Both for the wrap
\* option of the encoder and for wrapAt called on an encoder output.
WrapKeepsText ==
  /\ (pc \in { "encoded", "decoded" } /\ options.wrap # None /\ options.wrap[1] > 0)
       => RemoveBreaks(output) = outStripped
  /\ (pc = "wrapped" /\ width # None /\ width[1] > 0)
       => RemoveBreaks(wrapped) = output

\* A text of 14 characters wrapped at 3: four breaks inserted.
WrapKeepsTextWitness ==
  /\ pc = "encoded"
  /\ options.wrap = Some(3)
  /\ Len(outStripped) = 14
  /\ Len(output) = 18

\* The lines of s: the pieces between its line breaks (none for the empty text).
RECURSIVE SplitLines(_, _)
SplitLines(s, line) ==
  IF s = << >> THEN << line >>
  ELSE IF Head(s) = "\n" THEN << line >> \o SplitLines(Tail(s), << >>)
  ELSE SplitLines(Tail(s), line \o << Head(s) >>)

Lines(s) == IF s = << >> THEN << >> ELSE SplitLines(s, << >>)

\* res is text laid out in lines of w characters.
WrapShape(text, w, res) ==
  IF w = None \/ w[1] <= 0
  THEN res = text
  ELSE LET n == (Len(text) + w[1] - 1) \div w[1]
           lines == Lines(res)
       IN /\ Len(lines) = n
          /\ \A k \in 1..n :
               lines[k] = SubSeq(text, (k - 1) * w[1] + 1, Min(k * w[1], Len(text)))
          /\ \A k \in 1..(n - 1) : Len(lines[k]) = w[1]
          /\ n > 0 => Len(lines[n]) \in 1..w[1]
          /\ res # << >> => res[Len(res)] # "\n"
          /\ Len(text) <= w[1] => res = text

\* C8 (shape of wrapAt): with the width absent, zero or negative the text is
\* returned unchanged; otherwise the result is the consecutive width-character
\* segments of the text, one line break between two of them: every line but
\* the last has exactly width characters, the last has 1..width, no break
\* follows the last segment, and there is no break when the text is not
\* longer than width.  Both for wrapAt and for the encoder's wrap option.
WrapAtShape ==
  /\ pc = "wrapped" => WrapShape(output, width, wrapped)
  /\ pc = "encoded" => WrapShape(outStripped, options.wrap, output)

\* Eight characters at width 4: two full lines and one break.
WrapAtShapeWitness ==
  /\ pc = "wrapped"
  /\ width = Some(4)
  /\ Len(output) = 8
  /\ Len(wrapped) = 9

\* The encoder with one batch for all whole groups, then the tail.
Unbatched(b, table) ==
  LET whole == Len(b) - (Len(b) % 3)
  IN encodeChunk(b, 0, whole, table) \o EncodeTail(b, whole, table)

\* C9 (batch-size independence): whatever the batch size, the batch loop
\* stops only at multiples of 3, what it has produced at offset i is the
\* encoding of the first i bytes, and the padded text is that of the encoder
\* that takes all whole groups in one pass.
BatchSizeIndependent ==
  /\ pc = "loop" =>
       /\ i % 3 = 0
       /\ i <= Len(bytes)
       /\ output = encodeChunk(bytes, 0, i, Table(options))
  /\ pc = "encoded" =>
       /\ i = Len(bytes) - (Len(bytes) % 3)
       /\ outPadded = Unbatched(bytes, Table(options))

\* Ten bytes in batches of 8 (6 bytes each): two batches and a tail.
BatchSizeIndependentWitness ==
  /\ pc = "encoded"
  /\ chunkSize = 8
  /\ Len(bytes) = 10
  /\ i = 9
  /\ Len(outPadded) = 16

\* C10 (empty input), as stated: decoding the empty input returns the empty
\* buffer in strict and in loose mode, and decodeBase64 of it the empty string.
EmptyInputDecodes ==
  (pc = "decoded" /\ output = << >>) =>
    /\ call = "decodeBase64ToBytes" => (result.ok /\ result.bytes = << >>)
    /\ (call = "decodeBase64" /\ decodeOptions.output # Some("bytes")) =>
         (result.ok /\ result.kind = "string" /\ result.text = << >>)

\* C10, amended: decodeBase64ToBytes of the empty input returns the empty
\* buffer in strict and in loose mode; decodeBase64 of it returns the empty
\* buffer when bytes are asked for, the empty string when the environment
\* has a UTF-8 decoder (TextDecoder or Buffer), and otherwise fails with the
\* missing-decoder error.
EmptyInputDecodesWithDecoder ==
  (pc = "decoded" /\ output = << >>) =>
    /\ call = "decodeBase64ToBytes" => (result.ok /\ result.bytes = << >>)
    /\ (call = "decodeBase64" /\ decodeOptions.output = Some("bytes")) =>
         (result.ok /\ result.kind = "bytes" /\ result.bytes = << >>)
    /\ (call = "decodeBase64" /\ decodeOptions.output # Some("bytes")) =>
         IF env.hasTextDecoder \/ env.hasBuffer
         THEN result.ok /\ result.kind = "string" /\ result.text = << >>
         ELSE ~result.ok /\ result.error = NO_DECODER

\* The empty input decoded to the empty string through Buffer, in loose mode.
EmptyInputDecodesWithDecoderWitness ==
  /\ pc = "decoded"
  /\ output = << >>
  /\ call = "decodeBase64"
  /\ decodeOptions.output = None
  /\ decodeOptions.loose
  /\ ~env.hasTextDecoder
  /\ env.hasBuffer
  /\ result.ok
  /\ result.text = << >>

\* The text s without its whitespace characters.
WithoutWhitespace(s) == SelectSeq(s, LAMBDA ch : ch \notin Whitespace)

MIXED == "Mixed Base64 alphabets (standard and URL-safe)"
BAD_LENGTH == "Invalid Base64 string length"
BAD_PADDING == "Invalid Base64 padding"
BAD_CHARACTER == "Invalid Base64 character at position"
NON_CANONICAL == "Invalid Base64 input (non-canonical without padding)"

\* C11 (whitespace tolerance): whatever whitespace an input holds, at its
\* start, inside or at its end, decodeBase64ToBytes ends as it does on the
\* input without the whitespace: the same bytes, or the same error (and the
\* same position in it).
WhitespaceIgnored ==
  (pc = "decoded" /\ call = "decodeBase64ToBytes") =>
    result = BytesResult(decodeBase64ToBytes(WithoutWhitespace(input), decodeOptions.loose))

\* "QUJD BA " in strict mode: whitespace inside and at the end of an unpadded
\* canonical text, decoded to four bytes.
WhitespaceIgnoredWitness ==
  /\ pc = "decoded"
  /\ call = "decodeBase64ToBytes"
  /\ input = << "Q", "U", "J", "D", " ", "B", "A", " " >>
  /\ ~decodeOptions.loose
  /\ result.ok
  /\ result.bytes = << 65, 66, 67, 4 >>

\* C12 (length 1 modulo 4): an input whose length without whitespace is
\* 1 modulo 4 never enters the decode loop and never yields bytes, in strict
\* and in loose mode: the call fails, with the length error unless the
\* alphabets are mixed (which is checked first).
LengthOneModFourRejected ==
  Len(WithoutWhitespace(input)) % 4 = 1 =>
    /\ pc # "decodeLoop"
    /\ pc = "decoded" =>
         /\ ~result.ok
         /\ result.kind = "none"
         /\ result.error \in { MIXED, BAD_LENGTH }
         /\ result.error = MIXED <=>
              (Contains(input, { "-", "_" }) /\ Contains(input, { "+", "/" }))

\* Five characters, with a whitespace among them as well, in loose mode.
LengthOneModFourRejectedWitness ==
  /\ pc = "decoded"
  /\ call = "decodeBase64ToBytes"
  /\ decodeOptions.loose
  /\ input = << "Q", "U", "J", "D", "B", " " >>
  /\ ~result.ok
  /\ result.error = BAD_LENGTH

\* C13 (mixed alphabets): an input that holds '-' or '_' and also '+' or '/'
\* fails with the mixed-alphabet error in strict and in loose mode, whatever
\* its length, its padding and its other characters.
MixedAlphabetRejected ==
  (pc = "decoded" /\ Contains(input, { "-", "_" }) /\ Contains(input, { "+", "/" })) =>
    (~result.ok /\ result.error = MIXED)

\* "/-": '/' and '-' in a text of valid length, in loose mode.
MixedAlphabetRejectedWitness ==
  /\ pc = "decoded"
  /\ call = "decodeBase64ToBytes"
  /\ decodeOptions.loose
  /\ input = << "/", "-" >>
  /\ result.error = MIXED

\* Every '=' of t is in a suffix of one or two '='.
PaddedAtEndOnly(t) ==
  \A k \in 1..Len(t) :
    t[k] = "=" => /\ k >= Len(t) - 1
                  /\ t[Len(t)] = "="

\* The input holds symbols of both alphabets.
IsMixed(t) == Contains(t, { "-", "_" }) /\ Contains(t, { "+", "/" })

\* C14 (padding placement): in strict mode, for an input whose length without
\* whitespace is a multiple of 4 and whose alphabets are not mixed, the call
\* fails with the padding error if and only if some '=' is elsewhere than in
\* a suffix of one or two '='; such an input never enters the decode loop.
PaddingPlacement ==
  LET t == WithoutWhitespace(input)
  IN  (call = "decodeBase64ToBytes" /\ ~decodeOptions.loose /\ pc \in { "decodeLoop", "decoded" }
         /\ Len(t) % 4 = 0 /\ ~IsMixed(t)) =>
        /\ pc = "decodeLoop" => PaddedAtEndOnly(t)
        /\ pc = "decoded" => (result.error = BAD_PADDING <=> ~PaddedAtEndOnly(t))

\* "QUJDA===": three '=' at the end of the second group.
PaddingPlacementWitness ==
  /\ pc = "decoded"
  /\ call = "decodeBase64ToBytes"
  /\ ~decodeOptions.loose
  /\ input = << "Q", "U", "J", "D", "A", "=", "=", "=" >>
  /\ result.error = BAD_PADDING

\* The 6-bit value of a symbol of either alphabet.
SymbolValue(ch) ==
  IF ch \in { "+", "-" } THEN 62
  ELSE IF ch \in { "/", "_" } THEN 63
  ELSE (CHOOSE k \in 1..62 : Alnum[k] = ch) - 1

\* s with every '-' replaced by '+' and every '_' by '/'.
ToStandard(s) ==
  [k \in 1..Len(s) |-> IF s[k] = "-" THEN "+" ELSE IF s[k] = "_" THEN "/" ELSE s[k]]

\* t, unpadded, of length 4k+2 or 4k+3 and of symbols of one alphabet.
UnpaddedSymbols(t) ==
  /\ Len(t) % 4 \in { 2, 3 }
  /\ ~IsMixed(t)
  /\ \A k \in 1..Len(t) : t[k] \in Symbols \ { "=" }

\* The bits of the last symbol of t that belong to no byte: the low 4 of
\* the second symbol of a group, the low 2 of the third.
StrayBits(t) ==
  SymbolValue(t[Len(t)]) % (IF Len(t) % 4 = 2 THEN 16 ELSE 4)

\* C15 (canonical form): for an unpadded input of length 4k+2 or 4k+3 (without
\* whitespace) made of symbols of one alphabet, strict mode succeeds exactly
\* when the unused low bits of the last symbol are zero, which is when
\* re-encoding the bytes (RFC 4648, padding removed) gives the input back;
\* otherwise it fails with the non-canonical error.  Loose mode succeeds on
\* every such input, and its bytes re-encode to the input with those bits
\* cleared.
CanonicalUnpadded ==
  LET t == WithoutWhitespace(input)
      loose == decodeBase64ToBytes(input, TRUE)
      reenc == StripTrailingEq(RfcEncode(loose.bytes))
  IN  (pc = "decoded" /\ call = "decodeBase64ToBytes" /\ UnpaddedSymbols(t)) =>
        /\ loose.ok
        /\ Len(reenc) = Len(t)
        /\ SubSeq(reenc, 1, Len(t) - 1) = SubSeq(ToStandard(t), 1, Len(t) - 1)
        /\ SymbolValue(reenc[Len(t)]) = SymbolValue(t[Len(t)]) - StrayBits(t)
        /\ (StrayBits(t) = 0) <=> (reenc = ToStandard(t))
        /\ decodeOptions.loose => (result.ok /\ result.bytes = loose.bytes)
        /\ ~decodeOptions.loose =>
             /\ result.ok <=> StrayBits(t) = 0
             /\ result.ok => result.bytes = loose.bytes
             /\ ~result.ok => result.error = NON_CANONICAL

\* "QUJDAB" in strict mode: the last symbol has value 1, its low 4 bits stray.
CanonicalUnpaddedWitness ==
  /\ pc = "decoded"
  /\ call = "decodeBase64ToBytes"
  /\ ~decodeOptions.loose
  /\ input = << "Q", "U", "J", "D", "A", "B" >>
  /\ result.error = NON_CANONICAL

\* t with the '=' that bring its length to a multiple of 4.
PaddedText(t) == t \o Repeat("=", (4 - (Len(t) % 4)) % 4)

\* The alphabet the decoder reads t in.
UsesUrl(t) == Contains(t, { "-", "_" })

\* The character at index k (0-based) of the padded text p is neither a
\* symbol of the alphabet nor a '=' in the third or fourth place of its group.
Offends(p, k, url) ==
  LET ch == p[k + 1]
  IN  /\ ~(ch \in { Alnum[n] : n \in 1..62 })
      /\ ~(ch \in (IF url THEN { "-", "_" } ELSE { "+", "/" }))
      /\ ~(ch = "=" /\ k % 4 \in { 2, 3 })

HasOffender(p, url) == \E k \in 0..(Len(p) - 1) : Offends(p, k, url)

\* The index (0-based) of the first such character.
FirstOffender(p, url) ==
  CHOOSE k \in 0..(Len(p) - 1) :
    Offends(p, k, url) /\ \A j \in 0..(k - 1) : ~Offends(p, j, url)

PositionIsOffender ==
  LET t == WithoutWhitespace(input)
  IN  (pc = "decoded" /\ call = "decodeBase64ToBytes" /\ result.error = BAD_CHARACTER) =>
        result.position = FirstOffender(PaddedText(t), UsesUrl(t))

\* The number of '=' at the end of p.
RECURSIVE TrailingEq(_)
TrailingEq(p) ==
  IF p # << >> /\ p[Len(p)] = "=" THEN 1 + TrailingEq(SubSeq(p, 1, Len(p) - 1)) ELSE 0

\* C18 (output length): in the decode loop the write index stays within the
\* buffer: after the groups before i it is 3 bytes a group, cut at the length
\* of the buffer.  On a successful return the padded text ends with 0, 1 or 2
\* '=', the buffer returned has (padded length / 4) * 3 bytes less that
\* number, and the write index is that length: every byte of it was written.
DecodedLength ==
  call = "decodeBase64ToBytes" =>
    /\ pc = "decodeLoop" =>
         /\ Len(dec.output) = dec.outputLen
         /\ dec.out <= dec.outputLen
         /\ dec.out = Min(3 * (dec.i \div 4), dec.outputLen)
         /\ dec.i % 4 = 0
         /\ dec.i <= Len(dec.padded)
    /\ (pc = "decoded" /\ result.ok) =>
         /\ TrailingEq(dec.padded) \in 0..2
         /\ Len(result.bytes) = (Len(dec.padded) \div 4) * 3 - TrailingEq(dec.padded)
         /\ dec.out = Len(result.bytes)
         /\ dec.i = Len(dec.padded)

\* "QUJDBA==": two groups, the second of one byte.
DecodedLengthWitness ==
  /\ pc = "decoded"
  /\ call = "decodeBase64ToBytes"
  /\ input = << "Q", "U", "J", "D", "B", "A", "=", "=" >>
  /\ result.ok
  /\ dec.i = 8
  /\ dec.out = 4
  /\ result.bytes = << 65, 66, 67, 4 >>

\* decodeBase64ToBytes(input, { loose }) were alph (and its lookup table) the
\* alphabet selected.
OutcomeWith(text, loose, alph) ==
  LET e == DecodeEnter(text, loose)
  IN  IF e.over THEN e.result ELSE DecodeFrom([e.frame EXCEPT !.alph = alph], loose)

NoSpecials(t) == ~Contains(t, { "+", "/", "-", "_" })

\* C19 (tie-break), as stated: some input without '+', '/', '-' and '_' has
\* an outcome under the standard alphabet (the one selected) that differs
\* from its outcome under the url-safe alphabet.
TieBreakObservable ==
  \E t \in Texts : \E loose \in BOOLEAN :
    /\ NoSpecials(t)
    /\ OutcomeWith(t, loose, B64_STD_ALPH) # OutcomeWith(t, loose, B64_URL_ALPH)

\* C19, amended: for an input without '+', '/', '-' and '_' the decoder
\* selects the standard alphabet, and the outcome (the bytes, or the error
\* and its position) is what it would be with the url-safe alphabet selected:
\* the two alphabets differ only in the symbols 62 and 63, which such an
\* input does not hold and whose re-encoding a canonical input cannot hold.
TieBreakUnobservable ==
  (call = "decodeBase64ToBytes" /\ NoSpecials(input)) =>
    /\ pc = "decodeLoop" => dec.alph = B64_STD_ALPH
    /\ pc = "decoded" =>
         result = BytesResult(OutcomeWith(input, decodeOptions.loose, B64_URL_ALPH))

\* "QUJDBA" in strict mode: decoded under the standard alphabet, with the
\* canonical check passed.
TieBreakUnobservableWitness ==
  /\ pc = "decoded"
  /\ call = "decodeBase64ToBytes"
  /\ ~decodeOptions.loose
  /\ input = << "Q", "U", "J", "D", "B", "A" >>
  /\ dec.alph = B64_STD_ALPH
  /\ dec.verifyCanonical
  /\ result.ok

\* C20 (bytes output): decodeBase64 with output "bytes" ends as
\* decodeBase64ToBytes does on the same input with the same loose setting: it
\* returns the same buffer, as bytes, or throws the same error; whatever the
\* normalize option and the environment, no UTF-8 decoding takes place, so
\* the missing-decoder error is never thrown.
BytesOutputAsIs ==
  (pc = "decoded" /\ call = "decodeBase64" /\ decodeOptions.output = Some("bytes")) =>
    LET r == decodeBase64ToBytes(input, decodeOptions.loose)
    IN  /\ result.ok = r.ok
        /\ result.error = r.error
        /\ result.position = r.position
        /\ result.error # NO_DECODER
        /\ result.text = << >>
        /\ r.ok => (result.kind = "bytes" /\ result.bytes = r.bytes)

\* "ZcyB" with output "bytes" and normalize "NFC" where there is neither
\* TextDecoder nor Buffer: the three bytes, uncomposed.
BytesOutputAsIsWitness ==
  /\ pc = "decoded"
  /\ call = "decodeBase64"
  /\ decodeOptions.output = Some("bytes")
  /\ decodeOptions.normalize = Some("NFC")
  /\ ~env.hasTextDecoder
  /\ ~env.hasBuffer
  /\ input = << "Z", "c", "y", "B" >>
  /\ result.ok
  /\ result.bytes = << 101, 204, 129 >>

\* "SGVsbG8vV29ybGQr"
HELLO_WORLD_STANDARD ==
  << "S", "G", "V", "s", "b", "G", "8", "v", "V", "2", "9", "y", "b", "G", "Q", "r" >>

\* "SGVsbG8_V29ybGQr"
HELLO_WORLD_README ==
  << "S", "G", "V", "s", "b", "G", "8", "_", "V", "2", "9", "y", "b", "G", "Q", "r" >>

RenderIsFresh ==
  (pc = "rendered") =>
    result.value = HookCallback(call, input, decodeOptions, env).value

UrlRevokedOnce(k) ==
  LET c == convs[k]
  IN  /\ c.revoked <= c.created
      /\ c.created <= 1
      /\ (c.created = 1) <=> (c.kind = "file" /\ StartsWithImage(c.type) /\ WantsCanvas(c.opts))
      /\ (c.stage # "done") => (c.revoked = 0)
      /\ (c.stage = "done") => (c.revoked = c.created)
      /\ (c.kind = "file" /\ ~StartsWithImage(c.type)) =>
           /\ c.created = 0
           /\ c.stage \in { "settled", "done" }
           /\ ~c.ok
           /\ c.error = Some(NOT_AN_IMAGE)

\* C24 (object URLs of imageFileToBase64): a call creates an object URL
\* exactly when the file is an image and an option asks for the canvas; the
\* URL is revoked once, not before the load or error event of the image and
\* always after it, whether imageElementToBase64 then returns or throws; a
\* call with a file that is not an image rejects with "File is not an image"
\* and creates no URL.
ObjectUrlsRevokedOnce ==
  /\ [](\A k \in 1..Len(convs) : UrlRevokedOnce(k))
  /\ \A k \in 1..MaxConversions :
       (k <= Len(convs) /\ convs[k].created = 1) ~> (k <= Len(convs) /\ convs[k].revoked = 1)

\* An image loaded, imageElementToBase64 threw, and the URL is revoked, next
\* to a call that was refused for its file type.
ObjectUrlsRevokedOnceWitness ==
  \E k, j \in 1..Len(convs) :
    /\ convs[k].kind = "file"
    /\ WantsCanvas(convs[k].opts)
    /\ convs[k].error = Some(NO_CONTEXT)
    /\ convs[k].created = 1
    /\ convs[k].revoked = 1
    /\ convs[j].error = Some(NOT_AN_IMAGE)
    /\ convs[j].created = 0

\* C30 (overlapping conversions are not ordered): once every call of
\* convertFile and convertUrl has settled and continued, with no reset
\* after, the state of the hook holds the result (data or error) of the call
\* that settled last, whether or not it is the call made last.
LastSettledWins ==
  (convs # << >> /\ (\A k \in 1..Len(convs) : convs[k].stage = "done")
     /\ lastSet.by = "settle") =>
    \E k \in 1..Len(convs) :
      /\ convs[k].order = Len(convs)
      /\ lastSet.conv = k
      /\ hookState = ResultState(convs[k])

\* The first call settled after the second one, and the state holds its
\* data although the second call, the latest request, failed.
LastSettledWinsWitness ==
  /\ Len(convs) = 2
  /\ convs[1].order = 2
  /\ convs[2].order = 1
  /\ convs[1].ok
  /\ ~convs[2].ok
  /\ hookState = [data |-> convs[1].data, loading |-> FALSE, error |-> None]
  /\ hookState # ResultState(convs[2])

\* C25 (encoded length): without wrapping, n bytes encode to 4 * ceil(n / 3)
\* characters, a multiple of 4, when padding is kept, and to
\* 4 * floor(n / 3) plus 0, 2 or 3 characters for n mod 3 = 0, 1 or 2 when
\* padding is stripped, which is never 1 modulo 4.
EncodedLength ==
  (pc = "encoded" /\ options.wrap = None) =>
    LET n == Len(bytes)
    IN  IF options.padding = Some("strip")
        THEN /\ Len(output) = 4 * (n \div 3) + (CASE n % 3 = 0 -> 0
                                                  [] n % 3 = 1 -> 2
                                                  [] n % 3 = 2 -> 3)
             /\ Len(output) % 4 # 1
        ELSE /\ Len(output) = 4 * ((n + 2) \div 3)
             /\ Len(output) % 4 = 0

\* Four bytes, stripped: six characters.
EncodedLengthWitness ==
  /\ pc = "encoded"
  /\ options.wrap = None
  /\ options.padding = Some("strip")
  /\ Len(bytes) = 4
  /\ Len(output) = 6

\* C26 (loose accepts what strict accepts): an input decodeBase64ToBytes
\* accepts in strict mode is accepted in loose mode too, with the same bytes.
LooseIsSuperset ==
  (pc = "decoded" /\ call = "decodeBase64ToBytes" /\ ~decodeOptions.loose /\ result.ok) =>
    decodeBase64ToBytes(input, TRUE) = Done(result.bytes)

\* "QUJDAA", unpadded and canonical, accepted in strict mode.
LooseIsSupersetWitness ==
  /\ pc = "decoded"
  /\ call = "decodeBase64ToBytes"
  /\ ~decodeOptions.loose
  /\ input = << "Q", "U", "J", "D", "A", "A" >>
  /\ result.ok
  /\ result.bytes = << 65, 66, 67, 0 >>

\* The symbol of value v in the alphabet of t.
SymbolOf(v, url) ==
  IF v = 62 THEN (IF url THEN "-" ELSE "+")
  ELSE IF v = 63 THEN (IF url THEN "_" ELSE "/")
  ELSE Alnum[v + 1]

\* t is padded to a multiple of 4 with one or two '=' at its end only, after
\* symbols of one alphabet.
ExplicitlyPadded(t) ==
  /\ t # << >>
  /\ Len(t) % 4 = 0
  /\ ~IsMixed(t)
  /\ TrailingEq(t) \in { 1, 2 }
  /\ \A k \in 1..(Len(t) - TrailingEq(t)) : t[k] \in Symbols \ { "=" }

\* t with the unused low bits of its last symbol cleared.
CanonicalForm(t) ==
  LET d == StripTrailingEq(t)
      k == Len(d)
  IN  [t EXCEPT ![k] = SymbolOf(SymbolValue(d[k]) - StrayBits(d), UsesUrl(t))]

\* C27 (padded input is not checked for canonical form): in strict mode an
\* input padded with '=' to a multiple of 4 is accepted whatever the unused
\* low bits of its last symbol, and decodes to the bytes of its canonical
\* form (those bits cleared); "YR==" decodes as "YQ==" and "YWJ=" as "YWI=".
PaddedNotCanonicalChecked ==
  /\ (pc = "decoded" /\ call = "decodeBase64ToBytes") =>
       /\ decodeBase64ToBytes(<< "Y", "R", "=", "=" >>, FALSE) = Done(<< 97 >>)
       /\ decodeBase64ToBytes(<< "Y", "Q", "=", "=" >>, FALSE) = Done(<< 97 >>)
       /\ decodeBase64ToBytes(<< "Y", "W", "J", "=" >>, FALSE) = Done(<< 97, 98 >>)
       /\ decodeBase64ToBytes(<< "Y", "W", "I", "=" >>, FALSE) = Done(<< 97, 98 >>)
  /\ LET t == WithoutWhitespace(input)
     IN  (pc = "decoded" /\ call = "decodeBase64ToBytes" /\ ~decodeOptions.loose
            /\ ExplicitlyPadded(t)) =>
           /\ result.ok
           /\ ~dec.verifyCanonical
           /\ decodeBase64ToBytes(CanonicalForm(t), FALSE) = Done(result.bytes)

\* "AB==": the last symbol carries the stray bits 0001.
PaddedNotCanonicalCheckedWitness ==
  /\ pc = "decoded"
  /\ call = "decodeBase64ToBytes"
  /\ ~decodeOptions.loose
  /\ input = << "A", "B", "=", "=" >>
  /\ StrayBits(<< "A", "B" >>) = 1
  /\ CanonicalForm(input) = << "A", "A", "=", "=" >>
  /\ result.ok
  /\ result.bytes = << 0 >>

\* The six bits the character at index k (0-based) of p stands for, '=' for
\* six zero bits.
SixBits(p, k) == IF p[k + 1] = "=" THEN 0 ELSE SymbolValue(p[k + 1])

\* Byte j (0-based) of the 24-bit groups of p.
GroupByte(p, j) ==
  LET g == 4 * (j \div 3)
  IN  CASE j % 3 = 0 -> SixBits(p, g) * 4 + (SixBits(p, g + 1) \div 16)
        [] j % 3 = 1 -> (SixBits(p, g + 1) % 16) * 16 + (SixBits(p, g + 2) \div 4)
        [] j % 3 = 2 -> (SixBits(p, g + 2) % 4) * 64 + SixBits(p, g + 3)

\* Some '=' of p stands in the first or second place of its group.
EqInFirstHalf(p) == \E k \in 0..(Len(p) - 1) : p[k + 1] = "=" /\ k % 4 \in { 0, 1 }

\* Some '=' of p stands in the third or fourth place of a group that is not
\* the last one.
EqInsideText(p) ==
  \E k \in 0..(Len(p) - 5) : p[k + 1] = "=" /\ k % 4 \in { 2, 3 }

\* C28 (loose mode makes no padding-placement check): in loose mode, for an
\* input that does not mix the alphabets and whose length is not 1 modulo 4,
\* with p the input padded to a multiple of 4: if every character of p is a
\* symbol of the alphabet or a '=' in the third or fourth place of its group,
\* wherever that group is, the input is accepted, each '=' is decoded as six
\* zero bits, and the output has 3 bytes a group less the number of '=' at
\* the very end of p; if some '=' is in the first or second place of a group,
\* the call fails with the invalid-character error.  "ab=c" decodes to three
\* bytes and "YQ==YQ==" to [97, 0, 0, 97].
LooseEqualsAnywhere ==
  LET t == WithoutWhitespace(input)
      p == PaddedText(t)
  IN  (pc = "decoded" /\ call = "decodeBase64ToBytes" /\ decodeOptions.loose
         /\ ~IsMixed(t) /\ Len(t) % 4 # 1) =>
        /\ decodeBase64ToBytes(<< "a", "b", "=", "c" >>, TRUE) = Done(<< 105, 176, 28 >>)
        /\ decodeBase64ToBytes(<< "Y", "Q", "=", "=", "Y", "Q", "=", "=" >>, TRUE)
             = Done(<< 97, 0, 0, 97 >>)
        /\ ~HasOffender(p, UsesUrl(t)) =>
             /\ result.ok
             /\ TrailingEq(p) <= 2
             /\ Len(result.bytes) = 3 * (Len(p) \div 4) - TrailingEq(p)
             /\ \A j \in 0..(Len(result.bytes) - 1) : result.bytes[j + 1] = GroupByte(p, j)
        /\ EqInFirstHalf(p) =>
             /\ ~result.ok
             /\ result.error = BAD_CHARACTER

\* "AB==AB==": the '=' of the first group are inside the text.
LooseEqualsAnywhereWitness ==
  /\ pc = "decoded"
  /\ call = "decodeBase64ToBytes"
  /\ decodeOptions.loose
  /\ input = << "A", "B", "=", "=", "A", "B", "=", "=" >>
  /\ EqInsideText(input)
  /\ result.ok
  /\ result.bytes = << 0, 16, 0, 0 >>

\* The error the rules give for the text t (without whitespace), the first
\* that applies in their fixed order, "" when none does.
FirstFailure(t, loose) ==
  IF IsMixed(t) THEN MIXED
  ELSE IF Len(t) % 4 = 1 THEN BAD_LENGTH
  ELSE IF ~loose /\ Len(t) % 4 = 0 /\ ~PaddedAtEndOnly(t) THEN BAD_PADDING
  ELSE IF HasOffender(PaddedText(t), UsesUrl(t)) THEN BAD_CHARACTER
  ELSE IF ~loose /\ Len(t) % 4 \in { 2, 3 } /\ (Contains(t, { "=" }) \/ StrayBits(t) # 0)
    THEN NON_CANONICAL
  ELSE ""

\* C29 (error precedence): decodeBase64ToBytes fails with the first failure
\* of the order mixed alphabet, invalid length (1 modulo 4), padding placement
\* (strict, length a multiple of 4), invalid character (of the first group,
\* left to right, that holds one), non-canonical input (strict, padding
\* synthesized), and succeeds when there is none.
ErrorPrecedence ==
  LET t == WithoutWhitespace(input)
  IN  (pc = "decoded" /\ call = "decodeBase64ToBytes" /\ input # << >>) =>
        /\ result.ok <=> (FirstFailure(t, decodeOptions.loose) = "")
        /\ result.error = FirstFailure(t, decodeOptions.loose)
        /\ result.error = BAD_CHARACTER =>
             result.position = 4 * (FirstOffender(PaddedText(t), UsesUrl(t)) \div 4)

\* "-+!AA" mixes the alphabets, has length 1 modulo 4 and holds a character
\* of no alphabet: the mixed-alphabet error is the one raised.
ErrorPrecedenceWitness ==
  /\ pc = "decoded"
  /\ call = "decodeBase64ToBytes"
  /\ input = << "-", "+", "!", "A", "A" >>
  /\ IsMixed(input)
  /\ Len(input) % 4 = 1
  /\ HasOffender(PaddedText(input), UsesUrl(input))
  /\ result.error = MIXED

====
